---- MODULE Spec2Model ----
(***************************************************************************)
(* Model of the hotel recommendation engine                                *)
(* (src/src/services/RecommendationEngine.ts) and of the callers that      *)
(* share its singleton instance.                                           *)
(*                                                                         *)
(* Conventions                                                             *)
(*   - a JavaScript string is a sequence of one-character strings;         *)
(*   - an optional value (x | undefined) is a sequence of length <= 1:     *)
(*     None for undefined, Some(x) for x;                                  *)
(*   - ratings (0..10 scale) are kept in hundredths of a point, fuzzy      *)
(*     search distances (0..1) in hundredths, logarithms in thousandths;   *)
(*   - every AggregatedHotel carries a field ref, the identity of the      *)
(*     array element (its row number); copies keep the ref of the object   *)
(*     they were copied from.                                              *)
(***************************************************************************)
EXTENDS Integers, Sequences, FiniteSets, TLC

----------------------------------------------------------------------------
(* Bounds of the explored workloads *)

NumHotels == 6
NumCallers == 2
MaxCalls == 2
ScorePeriod == 3

----------------------------------------------------------------------------
(* Optional values *)

None == <<>>
Some(x) == <<x>>
IsDefined(o) == o # <<>>
Get(o) == o[1]

Min(a, b) == IF a < b THEN a ELSE b

RECURSIVE SumSeq(_)
SumSeq(s) == IF s = <<>> THEN 0 ELSE s[1] + SumSeq(Tail(s))

Range(s) == {s[i] : i \in DOMAIN s}

(* The subsequence of s at the positions in idxs, in increasing position. *)
AtPositions(s, idxs) ==
  [k \in 1..Cardinality(idxs) |->
     s[CHOOSE i \in idxs : Cardinality({j \in idxs : j <= i}) = k]]

(* Array.prototype.filter, with the predicate given on positions. *)
FilterAt(s, Keep(_)) == AtPositions(s, {i \in DOMAIN s : Keep(i)})

RECURSIVE Flatten(_)
Flatten(ss) == IF ss = <<>> THEN <<>> ELSE ss[1] \o Flatten(Tail(ss))

----------------------------------------------------------------------------
(* Strings *)

Upper == <<"A","B","C","D","E","F","G","H","I","J","K","L","M",
           "N","O","P","Q","R","S","T","U","V","W","X","Y","Z">>
Lower == <<"a","b","c","d","e","f","g","h","i","j","k","l","m",
           "n","o","p","q","r","s","t","u","v","w","x","y","z">>

(* UTF-16 order of the characters the workloads use. *)
CharOrder ==
  <<" ","*","0","1","2","3","4","5","6","7","8","9">> \o Upper \o Lower \o <<"|">>

LowerOf ==
  [c \in Range(CharOrder) |->
     IF \E i \in DOMAIN Upper : Upper[i] = c
       THEN Lower[CHOOSE i \in DOMAIN Upper : Upper[i] = c]
       ELSE c]

CodeOf == [c \in Range(CharOrder) |-> CHOOSE i \in DOMAIN CharOrder : CharOrder[i] = c]

ToLowerChar(c) == LowerOf[c]

CharCode(c) == CodeOf[c]

toLowerCase(s) == [i \in DOMAIN s |-> ToLowerChar(s[i])]

(* String.prototype.includes *)
includes(s, sub) ==
  \E i \in 0..(Len(s) - Len(sub)) : SubSeq(s, i + 1, i + Len(sub)) = sub

(* First position (1-based) at which sub occurs in s, ignoring case; 0 if none. *)
IndexOfCI(s, sub) ==
  LET ls == toLowerCase(s)
      lsub == toLowerCase(sub)
      hits == {i \in 1..(Len(s) - Len(sub) + 1) : SubSeq(ls, i, i + Len(sub) - 1) = lsub}
  IN IF hits = {} THEN 0 ELSE CHOOSE i \in hits : \A j \in hits : i <= j

RECURSIVE trim(_)
trim(s) ==
  IF s = <<>> THEN s
  ELSE IF Head(s) = " " THEN trim(Tail(s))
  ELSE IF s[Len(s)] = " " THEN trim(SubSeq(s, 1, Len(s) - 1))
  ELSE s

(* Array.prototype.join(' ') *)
RECURSIVE JoinSpace(_)
JoinSpace(ss) ==
  IF ss = <<>> THEN <<>>
  ELSE IF Len(ss) = 1 THEN ss[1]
  ELSE ss[1] \o <<" ">> \o JoinSpace(Tail(ss))

sUndefined == <<"u","n","d","e","f","i","n","e","d">>
sAll == <<"a","l","l">>
sDelhi == <<"D","e","l","h","i">>
sNewDelhi == <<"N","e","w"," ","D","e","l","h","i">>
sMumbai == <<"M","u","m","b","a","i">>
sBangalore == <<"B","a","n","g","a","l","o","r","e">>
sChennai == <<"C","h","e","n","n","a","i">>
sKolkata == <<"K","o","l","k","a","t","a">>
sJaipur == <<"J","a","i","p","u","r">>
sGoa == <<"G","o","a">>
sHyderabad == <<"H","y","d","e","r","a","b","a","d">>
sPune == <<"P","u","n","e">>
sAgra == <<"A","g","r","a">>

(* Template-literal interpolation of a possibly undefined string. *)
Interpolate(o) == IF IsDefined(o) THEN Get(o) ELSE sUndefined

----------------------------------------------------------------------------
(* Numbers *)

(* Math.round of the rational n/d, d > 0: halves round towards +infinity. *)
RoundDiv(n, d) == (2 * n + d) \div (2 * d)

(* Math.log in thousandths, tabulated on the arguments the workloads use. *)
LnTable ==
  (1 :> 0) @@ (2 :> 693) @@ (3 :> 1099) @@ (10 :> 2303) @@ (19 :> 2944) @@
  (100 :> 4605) @@ (109 :> 4691) @@ (3000 :> 8006)

LnMilli(n) == LnTable[n]

(* The quotient 0/0 of generateInsights; any other division is exact or floored. *)
NaN == 0 - 1000000

Digits == <<"0","1","2","3","4","5","6","7","8","9">>
IsDigit(c) == \E i \in DOMAIN Digits : Digits[i] = c
DigitVal(c) == (CHOOSE i \in DOMAIN Digits : Digits[i] = c) - 1

RECURSIVE DecimalValue(_)
DecimalValue(ds) ==
  IF ds = <<>> THEN 0
  ELSE 10 * DecimalValue(SubSeq(ds, 1, Len(ds) - 1)) + DigitVal(ds[Len(ds)])

(* parseInt(str.replace(/[^0-9]/g, '')) || undefined *)
ParseStarRating(str) ==
  LET ds == SelectSeq(str, IsDigit)
      n == DecimalValue(ds)
  IN IF ds = <<>> \/ n = 0 THEN None ELSE Some(n)

----------------------------------------------------------------------------
(* The raw dataset (rows as Papa.parse and its transform hand them over).  *)
(* A JSON text is kept as the document it denotes: kind "blank" (empty or  *)
(* whitespace), "json" (parses as it stands), "pydict" (single-quoted:     *)
(* parses only after the quotes are replaced) or "bad" (never parses).     *)

Doc(kind, ratings) == [kind |-> kind, ratings |-> ratings]
Rating(r, n) == [rating |-> r, reviews_count |-> n]

Row(name, address, city, star, facilities, pos, neg, summary, sites, price, avg, lat, lng) ==
  [property_name |-> name, address |-> address, city |-> city,
   hotel_star_rating |-> star, hotel_facilities |-> facilities,
   top_positive_review |-> pos, top_negative_review |-> neg,
   reviews_summary |-> summary, reviews_from_different_sites |-> sites,
   price |-> price, average_rating |-> avg, latitude |-> lat, longitude |-> lng]

CatalogRows ==
  << Row(<<"A">>, Some(<<"x"," ","D","e","l","h","i">>), sDelhi, <<"3">>,
         <<"P","o","o","l","|","w","i","f","i">>, <<>>, <<>>,
         Doc("json", <<Rating(800, 9)>>), Doc("blank", <<>>), 3000, 800, 0, 0),
     Row(<<"B">>, Some(sMumbai), sMumbai, <<"5"," ","s","t","a","r">>,
         <<"S","p","a"," ","|"," ","G","y","m","|","s","p","a">>, <<>>, <<>>,
         Doc("json", <<Rating(500, 9)>>), Doc("blank", <<>>), 5000, 500, 0, 0),
     Row(<<"C">>, Some(<<"d","e","l","h","i"," ","g","a","t","e">>), <<>>, <<>>,
         <<>>, <<"k","i","d","s"," ","p","o","o","l">>, <<>>,
         Doc("bad", <<>>), Doc("pydict", <<Rating(900, 99)>>), 0, 0, 287000, 771000),
     Row(<<"a","|","b">>, Some(<<"d">>), sGoa, <<"4">>,
         <<>>, <<>>, <<>>,
         Doc("blank", <<>>), Doc("pydict", <<Rating(700, 9)>>), 2000, 700, 0, 0),
     Row(<<"a">>, Some(<<"b","|","d">>), sGoa, <<"2">>,
         <<"g","y","m">>, <<>>, <<>>,
         Doc("json", <<Rating(800, 1), Rating(600, 1)>>), Doc("blank", <<>>), 2500, 750, 0, 0),
     Row(<<"F">>, None, sAgra, <<"3","*">>,
         <<"w","i","f","i","|","7">>, <<>>, <<"n","o","i","s","y">>,
         Doc("json", <<Rating(800, 9)>>), Doc("blank", <<>>), 4000, 800, 0, 0),
     Row(<<"G">>, Some(sDelhi), sDelhi, <<"0">>,
         <<"p","o","o","l">>, <<>>, <<>>,
         Doc("json", <<Rating(800, 9)>>), Doc("blank", <<>>), 5000, 800, 0, 0) >>

(* A row with neither a city nor an address. *)
BrokenRows ==
  << Row(<<"Z">>, None, <<>>, <<>>, <<>>, <<>>, <<>>,
         Doc("blank", <<>>), Doc("blank", <<>>), 1000, 800, 0, 0) >>

(* Rows at the ends of the scales: a negative average rating; the best    *)
(* rating with a large review count and every Family keyword.              *)
ExtremeRows ==
  << Row(<<"N">>, Some(<<"n">>), sMumbai, <<>>, <<>>, <<>>, <<>>,
         Doc("json", <<Rating(100, 9)>>), Doc("blank", <<>>), 0, 0 - 500, 0, 0),
     Row(<<"T">>, Some(<<"t">>), sDelhi, <<"5">>,
         <<"f","a","m","i","l","y","|","k","i","d","s","|",
           "c","h","i","l","d","r","e","n","|","p","o","o","l","|",
           "p","l","a","y","g","r","o","u","n","d">>, <<>>, <<>>,
         Doc("json", <<Rating(1000, 2999)>>), Doc("blank", <<>>), 6000, 1000, 0, 0) >>

FirstRows(n) == SubSeq(CatalogRows, 1, Min(n, Len(CatalogRows)))

(* Math.random(), in thousandths. *)
RandomDraws == {0, 999}

----------------------------------------------------------------------------
(* aggregateHotelData and its helpers *)

(* address.match(/alt1|alt2|.../i): the leftmost match, the earlier        *)
(* alternative winning at equal positions; <<0, 0>> when nothing matches.  *)
MatchAlternatives(address, alts) ==
  LET pos == [k \in DOMAIN alts |-> IndexOfCI(address, alts[k])]
      found == {k \in DOMAIN alts : pos[k] > 0}
  IN IF found = {} THEN <<0, 0>>
     ELSE LET best == CHOOSE k \in found :
                        \A j \in found : pos[k] < pos[j] \/ (pos[k] = pos[j] /\ k <= j)
          IN <<pos[best], Len(alts[best])>>

cityPatterns ==
  << <<sNewDelhi, sDelhi>>, <<sMumbai>>, <<sBangalore>>, <<sChennai>>, <<sKolkata>>,
     <<sJaipur>>, <<sGoa>>, <<sHyderabad>>, <<sPune>>, <<sAgra>> >>

extractCityFromAddress(address) ==
  LET m == [k \in DOMAIN cityPatterns |-> MatchAlternatives(address, cityPatterns[k])]
      found == {k \in DOMAIN cityPatterns : m[k][1] > 0}
  IN IF found = {} THEN sDelhi
     ELSE LET k == CHOOSE i \in found : \A j \in found : i <= j
              text == SubSeq(address, m[k][1], m[k][1] + m[k][2] - 1)
          IN IF toLowerCase(text) = toLowerCase(sNewDelhi) THEN sDelhi ELSE text

(* Math.min(100, Math.round((avg/10*0.5 + ln(n+1)/10*0.3 + ratio*0.2) * 100)) *)
calculateConfidenceScore(avgScore, totalReviews, positiveWords, negativeWords) ==
  LET den == positiveWords + negativeWords + 1
      (* the sum, times 1000 * den *)
      num == (avgScore * 50 + LnMilli(totalReviews + 1) * 3) * den + 20000 * positiveWords
  IN Min(100, RoundDiv(num, 1000 * den))

kwLuxury == <<"l","u","x","u","r","y">>
kwPalace == <<"p","a","l","a","c","e">>
kwOberoi == <<"o","b","e","r","o","i">>
kwTaj == <<"t","a","j">>
kwBusiness == <<"b","u","s","i","n","e","s","s">>
kwSpa == <<"s","p","a">>

(* draw is Math.random() in thousandths; address is a defined string. *)
estimatePriceRange(tags, avgScore, address, draw) ==
  LET tagArray == toLowerCase(JoinSpace(tags))
      addressLower == toLowerCase(address)
  IN IF includes(tagArray, kwLuxury) \/ includes(tagArray, kwPalace)
        \/ includes(tagArray, kwOberoi) \/ includes(tagArray, kwTaj)
        \/ includes(addressLower, kwPalace) \/ avgScore > 900
       THEN ((draw * 3000) \div 1000) + 4000
     ELSE IF includes(tagArray, kwBusiness) \/ includes(tagArray, kwSpa) \/ avgScore > 850
       THEN ((draw * 1000) \div 1000) + 2500
     ELSE IF avgScore > 750
       THEN ((draw * 1000) \div 1000) + 1500
     ELSE ((draw * 500) \div 1000) + 800

Coord(lat, lng) == [lat |-> lat, lng |-> lng]

(* Coordinates in 1/10000 degree. *)
getCoordinatesForCity(city) ==
  CASE city = sDelhi -> Coord(286139, 772090)
    [] city = sMumbai -> Coord(190760, 728777)
    [] city = sBangalore -> Coord(129716, 775946)
    [] city = sChennai -> Coord(130827, 802707)
    [] city = sKolkata -> Coord(225726, 883639)
    [] city = sJaipur -> Coord(269124, 757873)
    [] city = sGoa -> Coord(152993, 741240)
    [] city = sHyderabad -> Coord(173850, 784867)
    [] city = sPune -> Coord(185204, 738567)
    [] city = sAgra -> Coord(271767, 780081)
    [] OTHER -> Coord(286139, 772090)

getCoordinatesForRow(row, city) ==
  IF row.latitude # 0 /\ row.longitude # 0
    THEN Coord(row.latitude, row.longitude)
    ELSE getCoordinatesForCity(city)

computeWeightedAverage(platformRatings) ==
  LET n == Len(platformRatings)
      total == SumSeq([i \in 1..n |-> platformRatings[i].rating * platformRatings[i].reviews_count])
      count == SumSeq([i \in 1..n |-> platformRatings[i].reviews_count])
  IN IF n = 0 THEN 0
     ELSE IF count # 0 THEN total \div count
     ELSE SumSeq([i \in 1..n |-> platformRatings[i].rating]) \div n

(* JSON.parse of a document: <<TRUE, value>> or <<FALSE, _>> when it throws. *)
JsonParse(doc) == IF doc.kind = "json" THEN <<TRUE, doc.ratings>> ELSE <<FALSE, <<>>>>

(* str.replace(/'/g, '"') *)
RepairQuotes(doc) == IF doc.kind = "pydict" THEN Doc("json", doc.ratings) ELSE doc

ParsePlatformRatings(row) ==
  IF row.reviews_summary.kind = "blank" THEN <<>>
  ELSE IF JsonParse(row.reviews_summary)[1] THEN JsonParse(row.reviews_summary)[2]
  ELSE IF JsonParse(RepairQuotes(row.reviews_from_different_sites))[1]
    THEN JsonParse(RepairQuotes(row.reviews_from_different_sites))[2]
  ELSE <<>>

(* str.split(/[•|]/) *)
RECURSIVE SplitBar(_)
SplitBar(s) ==
  LET bars == {i \in DOMAIN s : s[i] = "|"}
  IN IF bars = {} THEN <<s>>
     ELSE LET i == CHOOSE b \in bars : \A c \in bars : b <= c
          IN <<SubSeq(s, 1, i - 1)>> \o SplitBar(SubSeq(s, i + 1, Len(s)))

(* The tags of a row: trimmed, non-empty, lower-cased, first occurrence kept, at most 10. *)
ParseTags(facilities) ==
  LET parts == IF facilities = <<>> THEN <<>> ELSE SplitBar(facilities)
      cleaned == [i \in DOMAIN parts |-> toLowerCase(trim(parts[i]))]
      kept == FilterAt(cleaned, LAMBDA i : cleaned[i] # <<>>
                                           /\ \A j \in 1..(i - 1) : cleaned[j] # cleaned[i])
  IN SubSeq(kept, 1, Min(10, Len(kept)))

RowCity(row) ==
  IF row.city # <<>> THEN row.city ELSE extractCityFromAddress(Get(row.address))

RowAvgScore(row) ==
  IF row.average_rating # 0 THEN row.average_rating
  ELSE computeWeightedAverage(ParsePlatformRatings(row))

NeedsEstimate(row) == ~(row.price # 0 /\ row.price > 0)

(* The row makes the map callback throw a TypeError (a method called on undefined). *)
RowThrows(row) ==
  ~IsDefined(row.address) /\ (row.city = <<>> \/ NeedsEstimate(row))

AggregateRow(row, ref, draw) ==
  LET city == RowCity(row)
      platformRatings == ParsePlatformRatings(row)
      totalReviews == SumSeq([i \in DOMAIN platformRatings |-> platformRatings[i].reviews_count])
      avgScore == RowAvgScore(row)
      tags == ParseTags(row.hotel_facilities)
      reviews == (IF row.top_positive_review # <<>> THEN <<trim(row.top_positive_review)>> ELSE <<>>)
                 \o (IF row.top_negative_review # <<>> THEN <<trim(row.top_negative_review)>> ELSE <<>>)
  IN [ref |-> ref,
      name |-> row.property_name,
      address |-> row.address,
      city |-> city,
      averageScore |-> avgScore,
      totalReviews |-> totalReviews,
      positiveWordCount |-> 1,
      negativeWordCount |-> 0,
      tags |-> tags,
      reviews |-> reviews,
      confidenceScore |-> calculateConfidenceScore(avgScore, totalReviews, 1, 0),
      priceRange |-> IF NeedsEstimate(row)
                       THEN estimatePriceRange(tags, avgScore, Get(row.address), draw)
                       ELSE row.price,
      coordinates |-> getCoordinatesForRow(row, city),
      platformRatings |-> platformRatings,
      starRating |-> ParseStarRating(row.hotel_star_rating)]

(* draws[i] is the random draw of row i (used only where a price is estimated). *)
aggregateHotelData(rows, draws) ==
  [i \in DOMAIN rows |-> AggregateRow(rows[i], i, draws[i])]

(* The vectors of random draws an aggregation of rows can consume. *)
DrawVectors(rows) ==
  {d \in [DOMAIN rows -> RandomDraws] :
     \A i \in DOMAIN rows : ~NeedsEstimate(rows[i]) => d[i] = 0}

----------------------------------------------------------------------------
(* Sorting and fuzzy search *)

(* Array.prototype.sort((a, b) => Key(b) - Key(a)): descending, stable. *)
SortDescBy(s, Key(_)) ==
  LET rank(i) == Cardinality({j \in DOMAIN s : Key(s[j]) > Key(s[i])})
                 + Cardinality({j \in 1..(i - 1) : Key(s[j]) = Key(s[i])}) + 1
  IN [k \in DOMAIN s |-> s[CHOOSE i \in DOMAIN s : rank(i) = k]]

(* Array.prototype.sort((a, b) => Key(a) - Key(b)): ascending, stable. *)
SortAscBy(s, Key(_)) ==
  LET rank(i) == Cardinality({j \in DOMAIN s : Key(s[j]) < Key(s[i])})
                 + Cardinality({j \in 1..(i - 1) : Key(s[j]) = Key(s[i])}) + 1
  IN [k \in DOMAIN s |-> s[CHOOSE i \in DOMAIN s : rank(i) = k]]

(* Distances (0 = perfect match .. 100 = no resemblance) the fuzzy matcher *)
(* can give an item for a query.                                           *)
ScoreLevels == {0, 40, 100}

(* The scorings of a list, one distance per position. The distance of an   *)
(* item depends on the item and the query only; the queries explored give  *)
(* the items every pattern of distances that repeats with ScorePeriod.     *)
Scorings(list) ==
  {[i \in DOMAIN list |-> base[list[i].ref % ScorePeriod]] :
     base \in [0..(ScorePeriod - 1) -> ScoreLevels]}

(* new Fuse(list, {threshold, includeScore: true}).search(query), where    *)
(* scoring[i] is the distance of list[i] to the query: the items within    *)
(* the threshold, best first, equal distances in list order.               *)
FuseSearch(list, scoring, threshold) ==
  LET hits == [i \in DOMAIN list |-> [item |-> list[i], score |-> scoring[i], refIndex |-> i]]
      within == FilterAt(hits, LAMBDA i : scoring[i] <= threshold)
  IN SortAscBy(within, LAMBDA r : r.score)

AreaThreshold == 40
SearchThreshold == 60

(* The item's address is the query itself, ignoring case. *)
AddressIs(h, query) ==
  IsDefined(h.address) /\ toLowerCase(Get(h.address)) = toLowerCase(query)

(* The scorings of the area search (address is its dominant key): as       *)
(* Scorings, except that an item whose address is the query itself is a    *)
(* perfect match.                                                          *)
AreaScorings(list, query) ==
  {[i \in DOMAIN list |-> IF AddressIs(list[i], query) THEN 0 ELSE s[i]] :
     s \in Scorings(list)}

----------------------------------------------------------------------------
(* generateRecommendations: the filters *)

Options(priceMin, priceMax, starRatings, avgRatingMin, avgRatingMax, area) ==
  [priceMin |-> priceMin, priceMax |-> priceMax, starRatings |-> starRatings,
   avgRatingMin |-> avgRatingMin, avgRatingMax |-> avgRatingMax, area |-> area]

MergeKey(h) == h.name \o <<"|">> \o Interpolate(h.address)

(* [...byExact, ...byAddress].filter(first occurrence of its key) *)
MergeUnique(byExact, byAddress) ==
  LET all == byExact \o byAddress
  IN FilterAt(all, LAMBDA i : \A j \in 1..(i - 1) : MergeKey(all[j]) # MergeKey(all[i]))

(* CityFilter without the fallback to the whole collection. *)
CityFilter_NoFallback(hotels, city) ==
  IF city # <<>> /\ city # sAll
    THEN LET cityLower == toLowerCase(city)
             byExact == SelectSeq(hotels, LAMBDA h : toLowerCase(h.city) = cityLower)
             byAddress == SelectSeq(hotels, LAMBDA h :
                            IsDefined(h.address)
                            /\ includes(toLowerCase(Get(h.address)), cityLower))
         IN MergeUnique(byExact, byAddress)
    ELSE hotels

CityFilter(hotels, city) ==
  IF city # <<>> /\ city # sAll
    THEN LET cityLower == toLowerCase(city)
             byExact == SelectSeq(hotels, LAMBDA h : toLowerCase(h.city) = cityLower)
             byAddress == SelectSeq(hotels, LAMBDA h :
                            IsDefined(h.address)
                            /\ includes(toLowerCase(Get(h.address)), cityLower))
             merged == MergeUnique(byExact, byAddress)
         IN IF Len(merged) = 0 THEN hotels ELSE merged
    ELSE hotels

(* PriceFilter with exclusive bounds. *)
PriceFilter_Exclusive(cands, options) ==
  IF IsDefined(options) /\ IsDefined(Get(options).priceMin) /\ IsDefined(Get(options).priceMax)
    THEN SelectSeq(cands, LAMBDA h : h.priceRange > Get(Get(options).priceMin)
                                     /\ h.priceRange < Get(Get(options).priceMax))
    ELSE cands

PriceFilter(cands, options) ==
  IF IsDefined(options) /\ IsDefined(Get(options).priceMin) /\ IsDefined(Get(options).priceMax)
    THEN SelectSeq(cands, LAMBDA h : h.priceRange >= Get(Get(options).priceMin)
                                     /\ h.priceRange <= Get(Get(options).priceMax))
    ELSE cands

(* StarFilter that lets hotels without a star rating through. *)
StarFilter_KeepsUnrated(cands, options) ==
  IF IsDefined(options) /\ IsDefined(Get(options).starRatings)
     /\ Len(Get(Get(options).starRatings)) # 0
    THEN SelectSeq(cands, LAMBDA h : ~IsDefined(h.starRating)
                                     \/ Get(h.starRating) \in Range(Get(Get(options).starRatings)))
    ELSE cands

StarFilter(cands, options) ==
  IF IsDefined(options) /\ IsDefined(Get(options).starRatings)
     /\ Len(Get(Get(options).starRatings)) # 0
    THEN SelectSeq(cands, LAMBDA h : IsDefined(h.starRating)
                                     /\ Get(h.starRating) \in Range(Get(Get(options).starRatings)))
    ELSE cands

(* RatingFilter with an exclusive lower bound. *)
RatingFilter_Exclusive(cands, options) ==
  IF IsDefined(options)
     /\ (IsDefined(Get(options).avgRatingMin) \/ IsDefined(Get(options).avgRatingMax))
    THEN SelectSeq(cands, LAMBDA h :
           /\ ~(IsDefined(Get(options).avgRatingMin) /\ h.averageScore <= Get(Get(options).avgRatingMin))
           /\ ~(IsDefined(Get(options).avgRatingMax) /\ h.averageScore > Get(Get(options).avgRatingMax)))
    ELSE cands

RatingFilter(cands, options) ==
  IF IsDefined(options)
     /\ (IsDefined(Get(options).avgRatingMin) \/ IsDefined(Get(options).avgRatingMax))
    THEN SelectSeq(cands, LAMBDA h :
           /\ ~(IsDefined(Get(options).avgRatingMin) /\ h.averageScore < Get(Get(options).avgRatingMin))
           /\ ~(IsDefined(Get(options).avgRatingMax) /\ h.averageScore > Get(Get(options).avgRatingMax)))
    ELSE cands

(* area && area.trim() *)
HasArea(options) ==
  IsDefined(options) /\ IsDefined(Get(options).area) /\ trim(Get(Get(options).area)) # <<>>

(* NarrowToArea keeping the matches in the order of the candidates. *)
NarrowToArea_CandidateOrder(cands, areaResults) ==
  IF Len(areaResults) # 0
    THEN SelectSeq(cands, LAMBDA h : \E k \in DOMAIN areaResults : areaResults[k].item.ref = h.ref)
    ELSE cands

(* The candidates after the fuzzy area match (lines 358-360); with no     *)
(* match they stay as they are and the geocode fallback follows.           *)
NarrowToArea(cands, areaResults) ==
  IF Len(areaResults) # 0
    THEN [k \in DOMAIN areaResults |-> areaResults[k].item]
    ELSE cands

(* NeedsGeocode starting the lookup whatever the area match returned. *)
NeedsGeocode_Always(areaResults) == TRUE

(* The geocode fallback is taken when the area match returned nothing (line 358). *)
NeedsGeocode(areaResults) == Len(areaResults) = 0

(* haversineKm, in metres, tabulated on the points the geocoder resolves   *)
(* to and the coordinates the catalogue's hotels get.                      *)
GeoPoints == {Coord(286000, 772000), Coord(190000, 729000)}

haversineKm(lat1, lon1, lat2, lon2) ==
  LET from == <<lat1, lon1>>
      to == <<lat2, lon2>>
  IN CASE from = <<286000, 772000>> /\ to = <<286139, 772090>> -> 1778
       [] from = <<286000, 772000>> /\ to = <<190760, 728777>> -> 1146327
       [] from = <<286000, 772000>> /\ to = <<287000, 771000>> -> 14794
       [] from = <<286000, 772000>> /\ to = <<152993, 741240>> -> 1512389
       [] from = <<286000, 772000>> /\ to = <<271767, 780081>> -> 177072
       [] from = <<190000, 729000>> /\ to = <<286139, 772090>> -> 1155091
       [] from = <<190000, 729000>> /\ to = <<190760, 728777>> -> 8770
       [] from = <<190000, 729000>> /\ to = <<287000, 771000>> -> 1159784
       [] from = <<190000, 729000>> /\ to = <<152993, 741240>> -> 431552
       [] from = <<190000, 729000>> /\ to = <<271767, 780081>> -> 1048293

(* SortByDistance dropping the candidates when the lookup gave nothing. *)
SortByDistance_NullClears(cands, geo) ==
  IF IsDefined(geo)
    THEN SortAscBy(cands, LAMBDA h : haversineKm(Get(geo).lat, Get(geo).lng,
                                                  h.coordinates.lat, h.coordinates.lng))
    ELSE <<>>

(* SortByDistance putting the farthest candidate first. *)
SortByDistance_Descending(cands, geo) ==
  IF IsDefined(geo)
    THEN SortDescBy(cands, LAMBDA h : haversineKm(Get(geo).lat, Get(geo).lng,
                                                   h.coordinates.lat, h.coordinates.lng))
    ELSE cands

(* The candidates after a geocode lookup that settled with geo (None = null). *)
SortByDistance(cands, geo) ==
  IF IsDefined(geo)
    THEN SortAscBy(cands, LAMBDA h : haversineKm(Get(geo).lat, Get(geo).lng,
                                                  h.coordinates.lat, h.coordinates.lng))
    ELSE cands

----------------------------------------------------------------------------
(* generateRecommendations: scoring, ranking, insights *)

bonusKeywords(persona) ==
  IF persona = "Family" THEN
    << <<"f","a","m","i","l","y">>,
       <<"k","i","d","s">>,
       <<"c","h","i","l","d","r","e","n">>,
       <<"p","o","o","l">>,
       <<"p","l","a","y","g","r","o","u","n","d">> >>
  ELSE IF persona = "Business" THEN
    << <<"b","u","s","i","n","e","s","s">>,
       <<"m","e","e","t","i","n","g">>,
       <<"c","o","n","f","e","r","e","n","c","e">>,
       <<"e","x","e","c","u","t","i","v","e">>,
       <<"w","i","f","i">> >>
  ELSE IF persona = "Luxury" THEN
    << <<"l","u","x","u","r","y">>,
       <<"s","p","a">>,
       <<"f","i","n","e">>,
       <<"p","r","e","m","i","u","m">>,
       <<"e","x","c","e","p","t","i","o","n","a","l">> >>
  ELSE IF persona = "Solo" THEN
    << <<"s","a","f","e">>,
       <<"s","e","c","u","r","e">>,
       <<"c","e","n","t","r","a","l">>,
       <<"c","o","n","v","e","n","i","e","n","t">>,
       <<"t","r","a","n","s","p","o","r","t">> >>
  ELSE IF persona = "Couple" THEN
    << <<"r","o","m","a","n","t","i","c">>,
       <<"i","n","t","i","m","a","t","e">>,
       <<"p","e","a","c","e","f","u","l">>,
       <<"q","u","i","e","t">>,
       <<"v","i","e","w","s">> >>
  ELSE <<>>

(* getPersonaBonus looking at the tags only. *)
getPersonaBonus_TagsOnly(hotel, persona) ==
  LET tags == toLowerCase(JoinSpace(hotel.tags))
      keywords == bonusKeywords(persona)
      matching == {k \in DOMAIN keywords : includes(tags, keywords[k])}
  IN Min(20 * Cardinality(matching), 100)

(* The bonus in thousandths: 20 per matching keyword, at most 100. *)
getPersonaBonus(hotel, persona) ==
  LET tags == toLowerCase(JoinSpace(hotel.tags))
      reviews == toLowerCase(JoinSpace(hotel.reviews))
      keywords == bonusKeywords(persona)
      matching == {k \in DOMAIN keywords :
                     includes(tags, keywords[k]) \/ includes(reviews, keywords[k])}
  IN Min(20 * Cardinality(matching), 100)

(* Math.min(1, Math.log(totalReviews + 1) / 8), in thousandths *)
ReviewConfidence(totalReviews) == Min(1000, LnMilli(totalReviews + 1) \div 8)

(* searchScore is the similarity 1 - distance, in hundredths. *)
calculateFinalScore(hotel, persona, searchScore) ==
  LET den == hotel.positiveWordCount + hotel.negativeWordCount + 1
      (* score, times 1000 * den *)
      num == (hotel.averageScore * 40 + searchScore * 300
              + ReviewConfidence(hotel.totalReviews) * 15
              + getPersonaBonus(hotel, persona) * 100) * den
             + 15000 * hotel.positiveWordCount
  IN RoundDiv(num, 1000 * den)

(* Math.round(((averageScore / 10) * 0.7 + reviewConfidence * 0.3) * 100) *)
PopularityScore(hotel) ==
  RoundDiv(hotel.averageScore * 70 + ReviewConfidence(hotel.totalReviews) * 30, 1000)

(* { ...hotel, finalScore } *)
WithFinalScore(hotel, finalScore) ==
  [ref |-> hotel.ref, name |-> hotel.name, address |-> hotel.address, city |-> hotel.city,
   averageScore |-> hotel.averageScore, totalReviews |-> hotel.totalReviews,
   positiveWordCount |-> hotel.positiveWordCount,
   negativeWordCount |-> hotel.negativeWordCount,
   tags |-> hotel.tags, reviews |-> hotel.reviews,
   confidenceScore |-> hotel.confidenceScore, priceRange |-> hotel.priceRange,
   coordinates |-> hotel.coordinates, platformRatings |-> hotel.platformRatings,
   starRating |-> hotel.starRating, finalScore |-> finalScore]

(* SourceAfterSpread for hotel.finalScore = finalScore: the score is      *)
(* written to the object of the collection.                                *)
SourceAfterSpread_Assigns(hotel, finalScore) == WithFinalScore(hotel, finalScore)

(* What { ...hotel, finalScore } leaves of the object it spreads: the      *)
(* copy gets the score, the source object stays as it was.                 *)
SourceAfterSpread(hotel, finalScore) == hotel

(* The shared collection after a request has scored scoredHotels: map()    *)
(* builds a new array, and the final sort orders that array, not this one. *)
CollectionAfterScoring(hotels, scoredHotels) ==
  [i \in DOMAIN hotels |->
     IF \E k \in DOMAIN scoredHotels : scoredHotels[k].ref = hotels[i].ref
       THEN SourceAfterSpread(hotels[i],
              scoredHotels[CHOOSE k \in DOMAIN scoredHotels :
                             scoredHotels[k].ref = hotels[i].ref].finalScore)
       ELSE hotels[i]]

ScoreHits(searchResults, persona) ==
  [k \in DOMAIN searchResults |->
     WithFinalScore(searchResults[k].item,
                    calculateFinalScore(searchResults[k].item, persona,
                                        100 - searchResults[k].score))]

ScoreByPopularity(cands) ==
  [k \in DOMAIN cands |-> WithFinalScore(cands[k], PopularityScore(cands[k]))]

(* ScoreHotels without the popularity fallback. *)
ScoreHotels_NoFallback(cands, searchResults, persona) == ScoreHits(searchResults, persona)

(* ScoreHotels falling back whenever the hits do not fill the list. *)
ScoreHotels_FewHits(cands, searchResults, persona) ==
  IF Len(ScoreHits(searchResults, persona)) < 5
    THEN ScoreByPopularity(cands)
    ELSE ScoreHits(searchResults, persona)

ScoreHotels(cands, searchResults, persona) ==
  IF Len(ScoreHits(searchResults, persona)) = 0
    THEN ScoreByPopularity(cands)
    ELSE ScoreHits(searchResults, persona)

TopN == 5

(* TopHotels without the sort. *)
TopHotels_Unsorted(scoredHotels) ==
  SubSeq(scoredHotels, 1, Min(TopN, Len(scoredHotels)))

(* TopHotels with an unstable sort: equal scores come out in reverse order. *)
TopHotels_TiesReversed(scoredHotels) ==
  LET n == Len(scoredHotels)
      reversed == [i \in 1..n |-> scoredHotels[n + 1 - i]]
      sorted == SortDescBy(reversed, LAMBDA h : h.finalScore)
  IN SubSeq(sorted, 1, Min(TopN, Len(sorted)))

TopHotels(scoredHotels) ==
  LET sorted == SortDescBy(scoredHotels, LAMBDA h : h.finalScore)
  IN SubSeq(sorted, 1, Min(TopN, Len(sorted)))

(* Math.round(x * 10) / 10 of the mean of averageScore, in tenths of a point; NaN for 0/0. *)
MeanRating(hotels) ==
  IF Len(hotels) = 0 THEN NaN
  ELSE RoundDiv(SumSeq([i \in DOMAIN hotels |-> hotels[i].averageScore]), 10 * Len(hotels))

(* The key is an array index ("0", "7", "24", ...): Object.entries lists    *)
(* such keys first, in ascending numeric order, whenever they were added.  *)
IsArrayIndex(key) ==
  /\ key # <<>>
  /\ \A i \in DOMAIN key : IsDigit(key[i])
  /\ (Len(key) = 1 \/ key[1] # "0")

(* Object.entries(tagCounts) as pairs <<tag, count>>: the array-index keys *)
(* in ascending order, then the other keys in order of first insertion.    *)
TagEntries(allTags) ==
  LET firsts == FilterAt(allTags, LAMBDA i : \A j \in 1..(i - 1) : allTags[j] # allTags[i])
      indexKeys == SelectSeq(firsts, IsArrayIndex)
      otherKeys == SelectSeq(firsts, LAMBDA t : ~IsArrayIndex(t))
      keys == SortAscBy(indexKeys, DecimalValue) \o otherKeys
  IN [k \in DOMAIN keys |->
        <<keys[k], Cardinality({i \in DOMAIN allTags : allTags[i] = keys[k]})>>]

TopFeatures(hotels) ==
  LET allTags == Flatten([i \in DOMAIN hotels |-> hotels[i].tags])
      sorted == SortDescBy(TagEntries(allTags), LAMBDA e : e[2])
  IN [k \in 1..Min(5, Len(sorted)) |-> sorted[k][1]]

generateInsights(hotels, city) ==
  [totalAnalyzed |-> Len(hotels),
   averageRating |-> MeanRating(hotels),
   topFeatures |-> TopFeatures(hotels),
   cityStats |-> [name |-> city, hotelCount |-> Len(hotels), avgRating |-> MeanRating(hotels)]]

(* a < b in the default order of Array.prototype.sort on strings *)
RECURSIVE StringLess(_, _)
StringLess(a, b) ==
  IF b = <<>> THEN FALSE
  ELSE IF a = <<>> THEN TRUE
  ELSE IF Head(a) = Head(b) THEN StringLess(Tail(a), Tail(b))
  ELSE CharCode(Head(a)) < CharCode(Head(b))

(* AvailableCities without the sort: the cities in order of first occurrence. *)
AvailableCities_Unsorted(hotels) ==
  LET all == [i \in DOMAIN hotels |-> hotels[i].city]
  IN FilterAt(all, LAMBDA i : \A j \in 1..(i - 1) : all[j] # all[i])

(* [...new Set(hotels.map(h => h.city))].sort() *)
AvailableCities(hotels) ==
  LET cities == {hotels[i].city : i \in DOMAIN hotels}
  IN [k \in 1..Cardinality(cities) |->
        CHOOSE c \in cities : Cardinality({d \in cities : StringLess(d, c)}) = k - 1]

(* SearchByCity comparing the cities as they are written. *)
SearchByCity_CaseSensitive(hotels, city) ==
  IF city = <<>> \/ city = sAll THEN hotels
  ELSE SelectSeq(hotels, LAMBDA h : h.city = city)

(* The body of searchHotelsByCity after the engine is initialized. *)
SearchByCity(hotels, city) ==
  IF city = <<>> \/ city = sAll THEN hotels
  ELSE SelectSeq(hotels, LAMBDA h : toLowerCase(h.city) = toLowerCase(city))

----------------------------------------------------------------------------
(* Workloads *)

Req(op, persona, city, options) ==
  [op |-> op, persona |-> persona, city |-> city, options |-> options]

sParis == <<"P","a","r","i","s">>
sdelhi == <<"d","e","l","h","i">>
sgoa == <<"g","o","a">>

PlainOptions ==
  { None,
    Some(Options(Some(3000), Some(5000), None, None, None, None)),
    Some(Options(Some(3000), None, None, None, None, None)),
    Some(Options(None, Some(4000), None, None, None, None)),
    Some(Options(None, None, Some(<<>>), None, None, None)),
    Some(Options(None, None, Some(<<3>>), None, None, None)),
    Some(Options(None, None, Some(<<3, 5>>), None, None, None)),
    Some(Options(None, None, None, Some(750), None, None)),
    Some(Options(None, None, None, None, Some(800), None)),
    Some(Options(None, None, None, Some(750), Some(800), None)),
    Some(Options(Some(3000), Some(5000), Some(<<3, 5>>), Some(500), Some(800), None)),
    Some(Options(None, None, None, None, None, Some(<<" ">>))) }

AreaOptions ==
  { Some(Options(None, None, None, None, None, Some(<<"x">>))),
    Some(Options(None, None, None, None, None,
                 Some(<<" ","D","e","l","h","i"," ","G","a","t","e">>))),
    Some(Options(None, Some(4000), None, None, None, Some(<<" ","x"," ">>))) }

RequestWorkload ==
  {Req("generateRecommendations", "Family", c, o) :
     c \in {<<>>, sAll, sdelhi, sGoa, sParis, <<"d">>}, o \in PlainOptions}
  \cup {Req("generateRecommendations", "Family", c, o) : c \in {sdelhi, sgoa}, o \in AreaOptions}
  \cup {Req("generateRecommendations", q, c, None) : q \in {"Couple", "Pilgrim"}, c \in {sAll, sdelhi}}
  \cup {Req("searchHotelsByCity", "", c, None) : c \in {<<>>, sAll, sdelhi, sParis, <<"d">>}}
  \cup {Req("initialize", "", <<>>, None), Req("getAvailableCities", "", <<>>, None)}

(* The calls explored after an initialize() of the caller's own. *)
FollowUpWorkload ==
  {r \in RequestWorkload : r.op # "generateRecommendations" \/ r.options = None}

SharedWorkload ==
  {Req("generateRecommendations", "Family", sdelhi, None),
   Req("generateRecommendations", "Family", sdelhi,
       Some(Options(None, None, None, Some(900), None, Some(<<"x">>)))),
   Req("searchHotelsByCity", "", sdelhi, None),
   Req("initialize", "", <<>>, None),
   Req("getAvailableCities", "", <<>>, None)}

(* Two requests that overlap at the geocode lookup: area searches with and *)
(* without a match, and requests without an area.                          *)
OverlapWorkload ==
  {Req("generateRecommendations", "Family", sdelhi, o) :
     o \in {None,
            Some(Options(None, None, None, None, None, Some(<<"x">>))),
            Some(Options(None, None, None, None, None,
                         Some(<<" ","D","e","l","h","i"," ","G","a","t","e">>)))}}
  \cup {Req("searchHotelsByCity", "", sdelhi, None),
        Req("getAvailableCities", "", <<>>, None)}

(* Scenario "request": one caller making one call of the request workload  *)
(* at once, or one of the follow-up workload after an initialize() of its  *)
(* own (the mount effect of useAI).                                        *)
(* Scenario "shared": several callers of the singleton, MaxCalls calls in  *)
(* all, a small workload.                                                  *)
(* Scenario "overlap": two callers of the singleton with one call each.    *)
Callers(sc) ==
  IF sc = "request" THEN {1} ELSE IF sc = "overlap" THEN 1..2 ELSE 1..NumCallers
CallLimit(sc) == IF sc \in {"request", "overlap"} THEN 2 ELSE MaxCalls
Requests(sc) ==
  IF sc = "request" THEN RequestWorkload
  ELSE IF sc = "overlap" THEN OverlapWorkload
  ELSE SharedWorkload
Datasets(sc) ==
  IF sc = "request"
    THEN {FirstRows(0), FirstRows(2), FirstRows(NumHotels), BrokenRows, ExtremeRows}
  ELSE IF sc = "overlap" THEN {FirstRows(2)}
  ELSE {FirstRows(1)}

AllCallers == 1..NumCallers

----------------------------------------------------------------------------
(* State *)

VARIABLES
  scenario,          \* the workload being explored
  isInitialized,     \* RecommendationEngine.isInitialized
  hotelData,         \* RecommendationEngine.hotelData
  aggregatedHotels,  \* RecommendationEngine.aggregatedHotels
  pc,                \* per caller: where its pending call stands
  call,              \* per caller: the call it made
  frame,             \* per caller: the locals of its generateRecommendations call
  result,            \* per caller: what its last call returned
  calls,             \* number of calls made so far
  loads,             \* number of loadHotelData invocations
  aggregations,      \* number of aggregateHotelData invocations
  lastLoad,          \* outcome of the last settled load: "none", "failed", "ok"
  images,            \* serpApi: the shared image cache, the fetches, their callers
  screen,            \* RecommendationsScreen: the area search and what it displays
  hook               \* useAI: its state and its pending analyzePreferences calls

vars == <<scenario, isInitialized, hotelData, aggregatedHotels, pc, call, frame,
          result, calls, loads, aggregations, lastLoad, images, screen, hook>>

(* The variables of the engine and of its callers. *)
backend == <<scenario, isInitialized, hotelData, aggregatedHotels, pc, call, frame,
             result, calls, loads, aggregations, lastLoad>>

(* The variables of the modules of the user interface. *)
frontend == <<images, screen, hook>>

engine == <<isInitialized, hotelData, aggregatedHotels>>

NoFrame ==
  [afterCity |-> <<>>, afterPrice |-> <<>>, afterStars |-> <<>>, afterRating |-> <<>>,
   areaResults |-> <<>>, geocode |-> "none", geoPoint |-> None, candidateHotels |-> <<>>,
   searchResults |-> <<>>, scoredHotels |-> <<>>]

NoResult == [kind |-> "none"]
NoCall == Req("none", "", <<>>, None)

----------------------------------------------------------------------------
(* serpApi: the image cache shared by the hotel cards *)

ImageKeys == {"k1", "k2"}
ImageQueries == {"q1", "q2"}
ImageUrls == {"https://u"}

(* The calls of the cache explored in one behaviour. *)
ImageCallLimit == MaxCalls + 1

NoClient == [pc |-> "idle", op |-> "none", key |-> "", promise |-> 0, value |-> None]

(* sharedImageCache (an absent key is <<>>, a cached value v is <<v>>, and *)
(* v is None for null), sharedInFlight (the number of the promise, 0 if    *)
(* absent), the promises made by getCachedHotelImage, and the callers.     *)
NoImages ==
  [cache |-> [k \in ImageKeys |-> <<>>],
   inFlight |-> [k \in ImageKeys |-> 0],
   promises |-> <<>>,
   client |-> [c \in AllCallers |-> NoClient],
   calls |-> 0]

(* sharedImageCache.has(key) *)
CacheHas(im, key) == im.cache[key] # <<>>

(* sharedImageCache.get(key) ?? null *)
CacheGetOrNull(im, key) == IF CacheHas(im, key) THEN im.cache[key][1] ELSE None

(* The lookup finding no pending fetch, whatever the map holds. *)
InFlightGet_Blind(im, key) == 0

(* sharedInFlight.get(key): the pending promise of key, 0 if there is none. *)
InFlightGet(im, key) == im.inFlight[key]

(* The then handler keeping null results out of the cache. *)
ThenCaches_UrlsOnly(cache, key, url) ==
  IF IsDefined(url) THEN [cache EXCEPT ![key] = <<url>>] ELSE cache

(* sharedImageCache.set(key, url ?? null) in the then handler. *)
ThenCaches(cache, key, url) == [cache EXCEPT ![key] = <<url>>]

(* What fetchHotelImage can resolve to: an https URL, or null (no API key, *)
(* a response that is not OK, no usable image, a caught error). It never   *)
(* rejects.                                                                *)
FetchOutcomes == {None} \cup {Some(u) : u \in ImageUrls}

CanUseImages(c) ==
  /\ images.client[c].pc \in {"idle", "returned"}
  /\ images.calls < ImageCallLimit

(* getCachedHotelImage(key, query): a cached key returns its value; a key  *)
(* in flight returns the pending promise; otherwise fetchHotelImage is     *)
(* started and its promise is registered in sharedInFlight.                *)
GetCachedHotelImage(c) ==
  /\ CanUseImages(c)
  /\ \E key \in ImageKeys, query \in ImageQueries :
       LET existing == InFlightGet(images, key)
           newId == Len(images.promises) + 1
           asked == [images EXCEPT !.calls = @ + 1]
       IN IF CacheHas(images, key)
            THEN images' = [asked EXCEPT !.client[c] =
                              [pc |-> "returned", op |-> "getCachedHotelImage", key |-> key,
                               promise |-> 0, value |-> CacheGetOrNull(images, key)]]
          ELSE IF existing # 0
            THEN images' = [asked EXCEPT !.client[c] =
                              [pc |-> "awaiting", op |-> "getCachedHotelImage", key |-> key,
                               promise |-> existing, value |-> None]]
          ELSE images' = [asked EXCEPT
                            !.promises = Append(@, [key |-> key, query |-> query,
                                                    state |-> "fetching", value |-> None]),
                            !.inFlight[key] = newId,
                            !.client[c] =
                              [pc |-> "awaiting", op |-> "getCachedHotelImage", key |-> key,
                               promise |-> newId, value |-> None]]
  /\ UNCHANGED <<backend, screen, hook>>

(* getCachedUrl(key): synchronous. *)
GetCachedUrl(c) ==
  /\ CanUseImages(c)
  /\ \E key \in ImageKeys :
       images' = [images EXCEPT
                    !.calls = @ + 1,
                    !.client[c] = [pc |-> "returned", op |-> "getCachedUrl", key |-> key,
                                   promise |-> 0, value |-> CacheGetOrNull(images, key)]]
  /\ UNCHANGED <<backend, screen, hook>>

(* The promise of fetchHotelImage resolves. *)
ImageFetchSettles(id) ==
  /\ id \in DOMAIN images.promises
  /\ images.promises[id].state = "fetching"
  /\ \E url \in FetchOutcomes :
       images' = [images EXCEPT !.promises[id].state = "resolved",
                                !.promises[id].value = url]
  /\ UNCHANGED <<backend, screen, hook>>

(* The then handler runs: the result is cached, the key leaves the         *)
(* in-flight map, and the promise handed to the callers resolves.          *)
ThenRuns(id) ==
  /\ id \in DOMAIN images.promises
  /\ images.promises[id].state = "resolved"
  /\ LET pr == images.promises[id]
     IN images' = [images EXCEPT
                     !.cache = ThenCaches(@, pr.key, pr.value),
                     !.inFlight[pr.key] = 0,
                     !.promises[id].state = "settled"]
  /\ UNCHANGED <<backend, screen, hook>>

(* A caller awaiting the promise of getCachedHotelImage resumes. *)
ClientResumes(c) ==
  /\ images.client[c].pc = "awaiting"
  /\ images.promises[images.client[c].promise].state = "settled"
  /\ images' = [images EXCEPT
                  !.client[c].pc = "returned",
                  !.client[c].value = images.promises[images.client[c].promise].value]
  /\ UNCHANGED <<backend, screen, hook>>

NextImages ==
  \/ \E c \in AllCallers :
       \/ GetCachedHotelImage(c)
       \/ GetCachedUrl(c)
       \/ ClientResumes(c)
  \/ \E id \in 1..ImageCallLimit :
       \/ ImageFetchSettles(id)
       \/ ThenRuns(id)

----------------------------------------------------------------------------
(* RecommendationsScreen: the area search over the hotels on display *)

(* The hotels handed to the screen; one comes without coordinates, as the  *)
(* hotels of the static lists may.                                         *)
ScreenHotels ==
  << [name |-> <<"A">>, city |-> sDelhi,
      address |-> <<"D","e","l","h","i"," ","G","a","t","e">>,
      price_range |-> 3000, coordinates |-> Some(Coord(286139, 772090))],
     [name |-> <<"B">>, city |-> sDelhi,
      address |-> <<"R","i","n","g">>,
      price_range |-> 6000, coordinates |-> Some(Coord(287000, 771000))],
     [name |-> <<"C">>, city |-> sGoa,
      address |-> <<>>,
      price_range |-> 0, coordinates |-> None] >>

ScreenCities == {sAll, sdelhi}
ScreenPriceRanges == {None, Some([min |-> 2000, max |-> 4000])}
ScreenQueries == {<<>>, <<"g","a","t","e">>, <<"z","z">>, sdelhi}

(* The searches started in one behaviour. *)
ScreenSearchLimit == MaxCalls + 2

(* filteredHotels: the hotels of the selected city in the selected price range. *)
FilteredHotels(selectedCity, selectedPriceRange) ==
  LET inCity == IF selectedCity # <<>> /\ selectedCity # sAll
                  THEN SelectSeq(ScreenHotels,
                                 LAMBDA h : toLowerCase(h.city) = toLowerCase(selectedCity))
                  ELSE ScreenHotels
      price(h) == IF h.price_range # 0 THEN h.price_range ELSE 2500
  IN IF IsDefined(selectedPriceRange)
       THEN SelectSeq(inCity, LAMBDA h : /\ price(h) >= Get(selectedPriceRange).min
                                         /\ price(h) <= Get(selectedPriceRange).max)
       ELSE inCity

(* bigrams(s) *)
Bigrams(s) ==
  LET str == trim(toLowerCase(s))
  IN [i \in 1..(Len(str) - 1) |-> SubSeq(str, i, i + 1)]

(* diceCoefficient(a, b), in hundredths (rounded down). *)
diceCoefficient(a, b) ==
  IF a = <<>> \/ b = <<>> THEN 0
  ELSE IF toLowerCase(a) = toLowerCase(b) THEN 100
  ELSE LET aGrams == Bigrams(a)
           bGrams == Bigrams(b)
           count(gs, g) == Cardinality({i \in DOMAIN gs : gs[i] = g})
           firsts == FilterAt(aGrams, LAMBDA i : \A j \in 1..(i - 1) : aGrams[j] # aGrams[i])
           matches == SumSeq([i \in DOMAIN firsts |->
                               Min(count(aGrams, firsts[i]), count(bGrams, firsts[i]))])
       IN IF Len(aGrams) = 0 \/ Len(bGrams) = 0 THEN 0
          ELSE (200 * matches) \div (Len(aGrams) + Len(bGrams))

(* The score getCloseMatches gives a choice, in hundredths. *)
ChoiceScore(query, c, dice) ==
  IF includes(toLowerCase(c), toLowerCase(query)) /\ dice < 75 THEN 75 ELSE dice

(* getCloseMatches(query, choices, n, cutoff), cutoff in hundredths. *)
getCloseMatches(query, choices, n, cutoff) ==
  LET scored == [i \in DOMAIN choices |->
                   [choice |-> choices[i],
                    score |-> ChoiceScore(query, choices[i],
                                          diceCoefficient(query, choices[i]))]]
      sorted == SortDescBy(SelectSeq(scored, LAMBDA x : x.score >= cutoff),
                           LAMBDA x : x.score)
      top == [k \in 1..Min(n, Len(sorted)) |-> sorted[k].choice]
  IN FilterAt(top, LAMBDA i : \A j \in 1..(i - 1) : top[j] # top[i])

(* The strings of a hotel that the area query is matched against. *)
Combos(h) ==
  (IF h.address # <<>> THEN <<h.address>> ELSE <<>>)
    \o (IF h.city # <<>> THEN <<h.city>> ELSE <<>>)

(* addressToHotelKey and keyToHotel: a string or a key that occurs twice   *)
(* stands for the last hotel that has it. Hotels are given by position.    *)
LastWith(hotels, Has(_)) ==
  CHOOSE i \in DOMAIN hotels : Has(hotels[i]) /\ \A j \in DOMAIN hotels : Has(hotels[j]) => j <= i

ScreenKey(h) == h.name \o <<"_","_">> \o h.city

(* Lines 228-247: the hotels of the close matches, at most 5. *)
MatchedHotels(matches, hotels) ==
  LET keyOf(m) == ScreenKey(hotels[LastWith(hotels, LAMBDA h : \E k \in DOMAIN Combos(h) :
                                                                 Combos(h)[k] = m)])
      keys == [i \in DOMAIN matches |-> keyOf(matches[i])]
      uniqKeys == FilterAt(keys, LAMBDA i : \A j \in 1..(i - 1) : keys[j] # keys[i])
      found == [i \in DOMAIN uniqKeys |->
                  hotels[LastWith(hotels, LAMBDA h : ScreenKey(h) = uniqKeys[i])]]
  IN SubSeq(found, 1, Min(5, Len(found)))

(* haversineDistance(a, b) of the screen: the formula of the engine. *)
haversineDistance(a, b) == haversineKm(a.lat, a.lng, b.lat, b.lng)

NoDisplay ==
  [areaFiltered |-> None, geoCenter |-> None, distanceByKey |-> {},
   searchError |-> None, searching |-> FALSE]

(* The cleanup of the effect leaving the flag of its search alone. *)
Cleanup_Keeps(search) == search

(* The cleanup of the effect: cancel = true. *)
Cleanup(search) == [search EXCEPT !.cancel = TRUE]

(* React runs the cleanup of the effect started last, when the             *)
(* dependencies changed or the component unmounts.                         *)
Supersede(sc) == [sc EXCEPT !.searches[Len(sc.searches)] = Cleanup(@)]

(* Lines 217-255 for the hotels and the close matches at hand. *)
EffectBody(sc, hotels, matches) ==
  LET reset == [sc.display EXCEPT !.searchError = None, !.geoCenter = None,
                                  !.distanceByKey = {}]
      empty == trim(sc.areaQuery) = <<>>
      pending == ~empty /\ Len(matches) = 0
  IN [sc EXCEPT
        !.display = IF empty THEN [reset EXCEPT !.areaFiltered = None]
                    ELSE IF pending THEN [reset EXCEPT !.searching = TRUE]
                    ELSE [reset EXCEPT !.areaFiltered = Some(MatchedHotels(matches, hotels)),
                                       !.searching = FALSE],
        !.searches = Append(@, [query |-> sc.areaQuery, hotels |-> hotels, cancel |-> FALSE,
                                state |-> IF pending THEN "geocoding" ELSE "returned"])]

(* The address pool of the fuzzy match. *)
AddressPool(hotels) == Flatten([i \in DOMAIN hotels |-> Combos(hotels[i])])

EffectOn(sc, hotels) ==
  EffectBody(sc, hotels, getCloseMatches(sc.areaQuery, AddressPool(hotels), 10, 60))

(* The effect body up to its return or to the await of the geocoder. *)
RunEffect(sc) == EffectOn(sc, FilteredHotels(sc.selectedCity, sc.selectedPriceRange))

(* The screen after it mounted with an empty area query. *)
InitialScreen ==
  RunEffect([mounted |-> TRUE, areaQuery |-> <<>>, selectedCity |-> sAll,
             selectedPriceRange |-> None, display |-> NoDisplay, searches |-> <<>>])

CanSearchAgain == screen.mounted /\ Len(screen.searches) < ScreenSearchLimit

(* setAreaQuery(areaInput.trim()) with a new query. *)
SetAreaQuery ==
  /\ CanSearchAgain
  /\ \E q \in ScreenQueries \ {screen.areaQuery} :
       screen' = RunEffect(Supersede([screen EXCEPT !.areaQuery = q]))
  /\ UNCHANGED <<backend, images, hook>>

(* The parent passes another selectedCity. *)
SelectCity ==
  /\ CanSearchAgain
  /\ \E c \in ScreenCities \ {screen.selectedCity} :
       screen' = RunEffect(Supersede([screen EXCEPT !.selectedCity = c]))
  /\ UNCHANGED <<backend, images, hook>>

(* The price filter changes: filteredHotels is a new list. *)
SelectPriceRange ==
  /\ CanSearchAgain
  /\ \E r \in ScreenPriceRanges \ {screen.selectedPriceRange} :
       screen' = RunEffect(Supersede([screen EXCEPT !.selectedPriceRange = r]))
  /\ UNCHANGED <<backend, images, hook>>

(* The component unmounts. *)
Unmount ==
  /\ screen.mounted
  /\ screen' = Supersede([screen EXCEPT !.mounted = FALSE])
  /\ UNCHANGED <<backend, images, hook>>

FirstFive(hotels) == SubSeq(hotels, 1, Min(5, Len(hotels)))

(* geocodeNominatim settles for search i, with a point or with null (any   *)
(* failure is caught and gives null); lines 257-292 run.                   *)
AreaGeocodeSettles(i) ==
  /\ i \in DOMAIN screen.searches
  /\ screen.searches[i].state = "geocoding"
  /\ \E center \in {None} \cup {Some(g) : g \in GeoPoints} :
       LET search == screen.searches[i]
           hotels == search.hotels
           returned == [screen EXCEPT !.searches[i].state = "returned"]
           throws == \E k \in DOMAIN hotels : hotels[k].coordinates = None
           dist(h) == haversineDistance(Get(center), Get(h.coordinates))
           key(h) == h.name \o <<"-">> \o h.city
           distances == {<<key(hotels[k]),
                           dist(hotels[LastWith(hotels, LAMBDA h : key(h) = key(hotels[k]))])>> :
                           k \in DOMAIN hotels}
       IN IF search.cancel THEN screen' = returned
          ELSE IF center = None
            THEN screen' = [returned EXCEPT
                              !.display.areaFiltered = Some(FirstFive(hotels)),
                              !.display.searchError = Some("No exact match found; showing top results."),
                              !.display.searching = FALSE]
          ELSE IF throws
            THEN screen' = [returned EXCEPT
                              !.display.areaFiltered = Some(FirstFive(hotels)),
                              !.display.searchError = Some("Search failed; showing defaults."),
                              !.display.searching = FALSE]
          ELSE screen' = [returned EXCEPT
                            !.display.geoCenter = center,
                            !.display.distanceByKey = distances,
                            !.display.areaFiltered = Some(FirstFive(SortAscBy(hotels, dist))),
                            !.display.searching = FALSE]
  /\ UNCHANGED <<backend, images, hook>>

NextScreen ==
  \/ SetAreaQuery
  \/ SelectCity
  \/ SelectPriceRange
  \/ Unmount
  \/ \E i \in 1..ScreenSearchLimit : AreaGeocodeSettles(i)

----------------------------------------------------------------------------
(* useAI: the hook between the screens and the engine *)

HookPersonas == {"Family", "Pilgrim"}
HookCities == {sdelhi}

(* The analyzePreferences calls made in one behaviour. *)
HookCallLimit == MaxCalls + 1

(* useState: the hook after its first render, the mount effect having     *)
(* called initialize(). calls and engineQueries record what was started.   *)
InitialHook ==
  [isAnalyzing |-> FALSE, recommendations |-> <<>>, insights |-> None,
   isEngineReady |-> FALSE, init |-> "pending", calls |-> <<>>, engineQueries |-> 0]

(* The list set on the engine path: the recommendations of the engine for  *)
(* the request, mapped to the hotels of the application.                   *)
EngineList(persona, city) == <<[from |-> "engine", persona |-> persona, city |-> city]>>

(* The list set on the static paths: the entries of the persona in         *)
(* recommendations.json (none for a persona without an entry), of the city *)
(* if one is given.                                                        *)
StaticList(persona, city) ==
  IF persona \in {"Family", "Business", "Luxury", "Solo", "Couple"}
    THEN <<[from |-> "static", persona |-> persona, city |-> city]>>
    ELSE <<>>

(* The values of isEngineReady that the analyzePreferences being called    *)
(* can hold: that of the last render, or that of an earlier render, when   *)
(* the engine was not ready yet.                                           *)
Snapshots == {hook.isEngineReady, FALSE}

(* The branch taken whatever the flag says. *)
UsesEngine_Always(ready) == TRUE

(* if (isEngineReady) *)
UsesEngine(ready) == ready

(* finally: setIsAnalyzing(false); the call returns. *)
Finally(h, i) == [h EXCEPT !.isAnalyzing = FALSE, !.calls[i].pc = "done"]

(* initialize() of the mount effect resolves: setIsEngineReady(true). *)
EngineInitResolves ==
  /\ hook.init = "pending"
  /\ hook' = [hook EXCEPT !.init = "resolved", !.isEngineReady = TRUE]
  /\ UNCHANGED <<backend, images, screen>>

(* initialize() of the mount effect rejects: setIsEngineReady(false). *)
EngineInitRejects ==
  /\ hook.init = "pending"
  /\ hook' = [hook EXCEPT !.init = "rejected", !.isEngineReady = FALSE]
  /\ UNCHANGED <<backend, images, screen>>

(* analyzePreferences(persona, city, ...) up to its first await: the call  *)
(* of the engine, or the timer of the static path.                         *)
AnalyzePreferences ==
  /\ Len(hook.calls) < HookCallLimit
  /\ \E persona \in HookPersonas, city \in HookCities, ready \in Snapshots :
       hook' = [hook EXCEPT
                  !.isAnalyzing = TRUE,
                  !.engineQueries = IF UsesEngine(ready) THEN @ + 1 ELSE @,
                  !.calls = Append(@, [persona |-> persona, city |-> city,
                                       pc |-> IF UsesEngine(ready) THEN "engine" ELSE "timer",
                                       path |-> "none"])]
  /\ UNCHANGED <<backend, images, screen>>

(* generateRecommendations settles: its result is mapped and set with the  *)
(* insights, or the catch block sets the static list; then finally.        *)
EngineSettles(i) ==
  /\ i \in DOMAIN hook.calls
  /\ hook.calls[i].pc = "engine"
  /\ LET c == hook.calls[i]
     IN \/ hook' = Finally([hook EXCEPT
                              !.recommendations = EngineList(c.persona, c.city),
                              !.insights = Some([persona |-> c.persona, city |-> c.city]),
                              !.calls[i].path = "engine"], i)
        \/ hook' = Finally([hook EXCEPT
                              !.recommendations = StaticList(c.persona, c.city),
                              !.calls[i].path = "static after error"], i)
  /\ UNCHANGED <<backend, images, screen>>

(* The 2 s timer of the static path fires: the static list is set; then    *)
(* finally.                                                                *)
TimerFires(i) ==
  /\ i \in DOMAIN hook.calls
  /\ hook.calls[i].pc = "timer"
  /\ LET c == hook.calls[i]
     IN hook' = Finally([hook EXCEPT
                           !.recommendations = StaticList(c.persona, c.city),
                           !.calls[i].path = "static"], i)
  /\ UNCHANGED <<backend, images, screen>>

NextHook ==
  \/ EngineInitResolves
  \/ EngineInitRejects
  \/ AnalyzePreferences
  \/ \E i \in 1..HookCallLimit : EngineSettles(i) \/ TimerFires(i)

----------------------------------------------------------------------------

InitCommon ==
  /\ images = NoImages
  /\ screen = InitialScreen
  /\ hook = InitialHook
  /\ isInitialized = FALSE
  /\ hotelData = <<>>
  /\ aggregatedHotels = <<>>
  /\ pc = [p \in AllCallers |-> "idle"]
  /\ call = [p \in AllCallers |-> NoCall]
  /\ frame = [p \in AllCallers |-> NoFrame]
  /\ result = [p \in AllCallers |-> NoResult]
  /\ calls = 0
  /\ loads = 0
  /\ aggregations = 0
  /\ lastLoad = "none"

Init == scenario = "request" /\ InitCommon

InitShared == scenario = "shared" /\ InitCommon

InitOverlap == scenario = "overlap" /\ InitCommon

----------------------------------------------------------------------------
(* The synchronous stretches of generateRecommendations *)

(* Lines 307-344: the city filter and the price, star and rating filters. *)
Filtered(hotels, req) ==
  LET afterCity == CityFilter(hotels, req.city)
      afterPrice == PriceFilter(afterCity, req.options)
      afterStars == StarFilter(afterPrice, req.options)
      afterRating == RatingFilter(afterStars, req.options)
  IN [NoFrame EXCEPT !.afterCity = afterCity, !.afterPrice = afterPrice,
                     !.afterStars = afterStars, !.afterRating = afterRating]

(* Lines 374-424: search, scoring, ranking, insights, given the final candidates. *)
Ranked(fr, candidateHotels, req, scoring) ==
  LET searchResults == FuseSearch(candidateHotels, scoring, SearchThreshold)
      scoredHotels == ScoreHotels(candidateHotels, searchResults, req.persona)
  IN [fr EXCEPT !.candidateHotels = candidateHotels,
                !.searchResults = searchResults,
                !.scoredHotels = scoredHotels]

Recommendation(fr, req) ==
  [kind |-> "recommendations",
   hotels |-> TopHotels(fr.scoredHotels),
   insights |-> generateInsights(fr.candidateHotels, req.city)]

(* The call of caller p returns the recommendation computed from frame fr. *)
Finish(p, fr, candidateHotels) ==
  \E scoring \in Scorings(candidateHotels) :
    LET done == Ranked(fr, candidateHotels, call'[p], scoring)
    IN /\ frame' = [frame EXCEPT ![p] = done]
       /\ result' = [result EXCEPT ![p] = Recommendation(done, call'[p])]
       /\ aggregatedHotels' = CollectionAfterScoring(aggregatedHotels, done.scoredHotels)
       /\ pc' = [pc EXCEPT ![p] = "done"]

(* Lines 307-424 up to the first await: runs with the engine as it is now. *)
GenerateBody(p) ==
  LET req == call'[p]
      fr == Filtered(aggregatedHotels, req)
  IN IF HasArea(req.options)
       THEN \E areaScoring \in AreaScorings(fr.afterRating, trim(Get(Get(req.options).area))) :
              LET areaResults == FuseSearch(fr.afterRating, areaScoring, AreaThreshold)
                  narrowed == NarrowToArea(fr.afterRating, areaResults)
              IN IF ~NeedsGeocode(areaResults)
                   THEN Finish(p, [fr EXCEPT !.areaResults = areaResults], narrowed)
                   ELSE /\ frame' = [frame EXCEPT ![p] =
                                       [fr EXCEPT !.areaResults = areaResults,
                                                  !.geocode = "pending",
                                                  !.candidateHotels = narrowed]]
                        /\ pc' = [pc EXCEPT ![p] = "geocoding"]
                        /\ UNCHANGED <<result, aggregatedHotels>>
       ELSE Finish(p, fr, fr.afterRating)

(* What the caller's own function does once the engine is initialized. *)
RunCall(p) ==
  LET req == call'[p]
  IN CASE req.op = "generateRecommendations" -> GenerateBody(p)
       [] req.op = "searchHotelsByCity" ->
            /\ result' = [result EXCEPT ![p] =
                 [kind |-> "hotels", hotels |-> SearchByCity(aggregatedHotels, req.city)]]
            /\ pc' = [pc EXCEPT ![p] = "done"]
            /\ frame' = [frame EXCEPT ![p] = NoFrame]
            /\ UNCHANGED aggregatedHotels
       [] req.op = "initialize" ->
            /\ result' = [result EXCEPT ![p] = [kind |-> "void"]]
            /\ pc' = [pc EXCEPT ![p] = "done"]
            /\ frame' = [frame EXCEPT ![p] = NoFrame]
            /\ UNCHANGED aggregatedHotels

----------------------------------------------------------------------------
(* Actions *)

CanCall(p) ==
  /\ p \in Callers(scenario)
  /\ pc[p] \in {"idle", "done", "rejected"}
  /\ calls < CallLimit(scenario)
  /\ (scenario = "request" /\ calls = 1) => call[p].op = "initialize"

(* A caller invokes initialize(), generateRecommendations() or             *)
(* searchHotelsByCity(): with the engine initialized the call runs on;     *)
(* otherwise initialize() starts loadHotelData and suspends at the fetch.  *)
Call(p) ==
  /\ CanCall(p)
  /\ \E req \in Requests(scenario) :
       /\ req.op \in {"initialize", "generateRecommendations", "searchHotelsByCity"}
       /\ (scenario = "request" /\ calls = 1) => req \in FollowUpWorkload
       /\ call' = [call EXCEPT ![p] = req]
  /\ calls' = calls + 1
  /\ IF isInitialized
       THEN /\ RunCall(p)
            /\ UNCHANGED loads
       ELSE /\ pc' = [pc EXCEPT ![p] = "fetching"]
            /\ loads' = loads + 1
            /\ frame' = [frame EXCEPT ![p] = NoFrame]
            /\ result' = [result EXCEPT ![p] = NoResult]
            /\ UNCHANGED aggregatedHotels
  /\ UNCHANGED <<frontend, scenario, isInitialized, hotelData, aggregations, lastLoad>>

(* getAvailableCities(): synchronous, never initializes the engine. *)
GetAvailableCities(p) ==
  /\ CanCall(p)
  /\ Req("getAvailableCities", "", <<>>, None) \in Requests(scenario)
  /\ call' = [call EXCEPT ![p] = Req("getAvailableCities", "", <<>>, None)]
  /\ calls' = calls + 1
  /\ result' = [result EXCEPT ![p] =
                  [kind |-> "cities", cities |-> AvailableCities(aggregatedHotels)]]
  /\ frame' = [frame EXCEPT ![p] = NoFrame]
  /\ pc' = [pc EXCEPT ![p] = "done"]
  /\ UNCHANGED <<frontend, scenario, engine, loads, aggregations, lastLoad>>

(* fetch(path) settles: a network error or a non-OK response is caught by  *)
(* loadHotelData, which leaves an empty hotelData; an OK response goes on  *)
(* to resp.text().                                                         *)
FetchSettles(p) ==
  /\ pc[p] = "fetching"
  /\ \E outcome \in {"error", "not_ok", "ok"} :
       IF outcome = "ok"
         THEN /\ pc' = [pc EXCEPT ![p] = "reading"]
              /\ UNCHANGED <<hotelData, lastLoad>>
         ELSE /\ hotelData' = <<>>
              /\ lastLoad' = "failed"
              /\ pc' = [pc EXCEPT ![p] = "loaded"]
  /\ UNCHANGED <<frontend, scenario, isInitialized, aggregatedHotels, call, frame, result,
                 calls, loads, aggregations>>

(* resp.text() settles and the CSV is parsed: the rows with a property     *)
(* name are kept; a failure is caught and leaves an empty hotelData.       *)
TextSettles(p) ==
  /\ pc[p] = "reading"
  /\ \/ \E rows \in Datasets(scenario) :
          /\ hotelData' = SelectSeq(rows, LAMBDA d : d.property_name # <<>>)
          /\ lastLoad' = "ok"
     \/ /\ hotelData' = <<>>
        /\ lastLoad' = "failed"
  /\ pc' = [pc EXCEPT ![p] = "loaded"]
  /\ UNCHANGED <<frontend, scenario, isInitialized, aggregatedHotels, call, frame, result,
                 calls, loads, aggregations>>

(* initialize() resumes after loadHotelData: aggregateHotelData, then the  *)
(* flag. A row that makes the aggregation throw leaves both untouched and  *)
(* the error is rethrown to the caller.                                    *)
InitializeResumes(p) ==
  /\ pc[p] = "loaded"
  /\ aggregations' = aggregations + 1
  /\ IF \E i \in DOMAIN hotelData : RowThrows(hotelData[i])
       THEN /\ pc' = [pc EXCEPT ![p] = "rejected"]
            /\ UNCHANGED <<isInitialized, aggregatedHotels>>
       ELSE /\ \E draws \in DrawVectors(hotelData) :
                 aggregatedHotels' = aggregateHotelData(hotelData, draws)
            /\ isInitialized' = TRUE
            /\ pc' = [pc EXCEPT ![p] = "initialized"]
  /\ UNCHANGED <<frontend, scenario, hotelData, call, frame, result, calls, loads, lastLoad>>

(* The caller of initialize() resumes after it resolved. *)
CallerResumes(p) ==
  /\ pc[p] = "initialized"
  /\ call' = call
  /\ RunCall(p)
  /\ UNCHANGED <<frontend, scenario, isInitialized, hotelData, calls, loads, aggregations, lastLoad>>

(* The geocode lookup settles with a point or with null (network error,    *)
(* non-OK response, empty result); the call then ranks and returns.        *)
GeocodeSettles(p) ==
  /\ pc[p] = "geocoding"
  /\ call' = call
  /\ \E geo \in {None} \cup {Some(g) : g \in GeoPoints} :
       Finish(p, [frame[p] EXCEPT !.geocode = IF IsDefined(geo) THEN "ok" ELSE "null",
                                  !.geoPoint = geo],
              SortByDistance(frame[p].candidateHotels, geo))
  /\ UNCHANGED <<frontend, scenario, isInitialized, hotelData, calls, loads, aggregations, lastLoad>>

Next ==
  \E p \in AllCallers :
    \/ Call(p)
    \/ GetAvailableCities(p)
    \/ FetchSettles(p)
    \/ TextSettles(p)
    \/ InitializeResumes(p)
    \/ CallerResumes(p)
    \/ GeocodeSettles(p)

Spec == Init /\ [][Next]_vars

SpecShared == InitShared /\ [][Next]_vars

SpecOverlap == InitOverlap /\ [][Next]_vars

(* The image cache on its own: the engine takes no step. *)
InitImages == scenario = "images" /\ InitCommon

SpecImages == InitImages /\ [][NextImages]_vars

(* The results screen on its own. *)
InitScreen == scenario = "screen" /\ InitCommon

SpecScreen == InitScreen /\ [][NextScreen]_vars

(* The hook on its own; the promise of the engine settles and the timer    *)
(* fires.                                                                  *)
InitHook == scenario = "hook" /\ InitCommon

SpecHook ==
  /\ InitHook /\ [][NextHook]_vars
  /\ \A i \in 1..HookCallLimit : WF_vars(EngineSettles(i)) /\ WF_vars(TimerFires(i))

----------------------------------------------------------------------------
(* Vocabulary of the properties *)

GenDone(p) == pc[p] = "done" /\ call[p].op = "generateRecommendations"

Refs(s) == [i \in DOMAIN s |-> s[i].ref]

(* Position of the element with identity ref in s (0 if absent). *)
PosOf(s, ref) ==
  IF \E i \in DOMAIN s : s[i].ref = ref THEN CHOOSE i \in DOMAIN s : s[i].ref = ref ELSE 0

CityGiven(city) == city # <<>> /\ city # sAll

(* h belongs to city: same city ignoring case, or the address mentions it. *)
BelongsTo(h, city) ==
  \/ toLowerCase(h.city) = toLowerCase(city)
  \/ IsDefined(h.address) /\ includes(toLowerCase(Get(h.address)), toLowerCase(city))

SamePair(a, b) == a.name = b.name /\ a.address = b.address

Opt(p, field) ==
  IF IsDefined(call[p].options) THEN Get(call[p].options)[field] ELSE None

----------------------------------------------------------------------------
(* C1: for every interleaving of concurrent first calls on one engine,     *)
(* the dataset load and the aggregation each run at most once.             *)
C1_LoadAndAggregateOnce == loads <= 1 /\ aggregations <= 1

(* C2: after a failed dataset load every generateRecommendations call      *)
(* returns an empty hotels list and insights with totalAnalyzed = 0 and    *)
(* numeric (non-NaN) averageRating and cityStats.avgRating.                *)
C2_WellFormedAfterLoadFailure ==
  \A p \in AllCallers :
    (GenDone(p) /\ lastLoad = "failed" /\ loads = 1) =>
      /\ result[p].hotels = <<>>
      /\ result[p].insights.totalAnalyzed = 0
      /\ result[p].insights.averageRating # NaN
      /\ result[p].insights.cityStats.avgRating # NaN

(* C3: when a city is given and no hotel belongs to it, the candidates     *)
(* handed to the later filters are the whole aggregated collection, and    *)
(* with no options and a non-empty collection the returned list is not     *)
(* empty.                                                                  *)
C3_CityFallback ==
  \A p \in AllCallers :
    (/\ GenDone(p)
     /\ CityGiven(call[p].city)
     /\ \A i \in DOMAIN aggregatedHotels : ~BelongsTo(aggregatedHotels[i], call[p].city)) =>
      /\ frame[p].afterCity = aggregatedHotels
      /\ (call[p].options = None /\ aggregatedHotels # <<>>) => result[p].hotels # <<>>

C3_Witness ==
  \E p \in AllCallers :
    /\ GenDone(p)
    /\ CityGiven(call[p].city)
    /\ \A i \in DOMAIN aggregatedHotels : ~BelongsTo(aggregatedHotels[i], call[p].city)
    /\ call[p].options = None
    /\ Len(aggregatedHotels) > 1
    /\ result[p].hotels # <<>>

(* C4: when the queried city matches at least one hotel, the candidates    *)
(* after the city filter are exactly the hotels that belong to the city,   *)
(* no two of them sharing a (name, address) pair, and every returned hotel *)
(* belongs to the city.                                                    *)
C4_CityFilterExact ==
  \A p \in AllCallers :
    (/\ GenDone(p)
     /\ CityGiven(call[p].city)
     /\ \E i \in DOMAIN aggregatedHotels : BelongsTo(aggregatedHotels[i], call[p].city)) =>
      /\ \A i \in DOMAIN aggregatedHotels :
           BelongsTo(aggregatedHotels[i], call[p].city) =>
             \E k \in DOMAIN frame[p].afterCity :
               SamePair(frame[p].afterCity[k], aggregatedHotels[i])
      /\ \A k \in DOMAIN frame[p].afterCity :
           /\ BelongsTo(frame[p].afterCity[k], call[p].city)
           /\ \A j \in DOMAIN frame[p].afterCity :
                SamePair(frame[p].afterCity[j], frame[p].afterCity[k]) => j = k
      /\ \A k \in DOMAIN result[p].hotels : BelongsTo(result[p].hotels[k], call[p].city)

(* C5: the price filter is applied exactly when both priceMin and priceMax *)
(* are supplied; it then keeps exactly the candidates with                 *)
(* priceMin <= priceRange <= priceMax; otherwise it removes nothing.       *)
C5_PriceFilter ==
  \A p \in AllCallers :
    GenDone(p) =>
      LET before == frame[p].afterCity
          after == frame[p].afterPrice
          lo == Opt(p, "priceMin")
          hi == Opt(p, "priceMax")
      IN IF IsDefined(lo) /\ IsDefined(hi)
           THEN /\ \A i \in DOMAIN before :
                     (before[i].ref \in Range(Refs(after)))
                       <=> (Get(lo) <= before[i].priceRange /\ before[i].priceRange <= Get(hi))
                /\ Range(after) \subseteq Range(before)
           ELSE after = before

C5_Witness ==
  \E p \in AllCallers :
    /\ GenDone(p)
    /\ IsDefined(Opt(p, "priceMin")) /\ IsDefined(Opt(p, "priceMax"))
    /\ \E i \in DOMAIN frame[p].afterPrice :
         frame[p].afterPrice[i].priceRange = Get(Opt(p, "priceMin"))
    /\ \E i \in DOMAIN frame[p].afterPrice :
         frame[p].afterPrice[i].priceRange = Get(Opt(p, "priceMax"))
    /\ Len(frame[p].afterPrice) < Len(frame[p].afterCity)

(* C6: when avgRatingMin or avgRatingMax is supplied, every returned hotel *)
(* has averageScore within the supplied bounds (inclusive), and exactly    *)
(* the candidates outside a supplied bound are removed.                    *)
C6_RatingFilter ==
  \A p \in AllCallers :
    GenDone(p) =>
      LET before == frame[p].afterStars
          after == frame[p].afterRating
          lo == Opt(p, "avgRatingMin")
          hi == Opt(p, "avgRatingMax")
          Within(h) == /\ IsDefined(lo) => h.averageScore >= Get(lo)
                       /\ IsDefined(hi) => h.averageScore <= Get(hi)
      IN /\ \A k \in DOMAIN result[p].hotels : Within(result[p].hotels[k])
         /\ \A i \in DOMAIN before :
              (before[i].ref \in Range(Refs(after))) <=> Within(before[i])

C6_Witness ==
  \E p \in AllCallers :
    /\ GenDone(p)
    /\ IsDefined(Opt(p, "avgRatingMin")) /\ ~IsDefined(Opt(p, "avgRatingMax"))
    /\ \E k \in DOMAIN result[p].hotels :
         result[p].hotels[k].averageScore = Get(Opt(p, "avgRatingMin"))
    /\ \E k \in DOMAIN result[p].hotels :
         result[p].hotels[k].averageScore > Get(Opt(p, "avgRatingMin"))
    /\ Len(frame[p].afterRating) < Len(frame[p].afterStars)

(* C7: when a non-empty starRatings set is supplied, every returned hotel  *)
(* has a defined starRating in the set; when it is absent or empty no      *)
(* candidate is removed on star rating.                                    *)
C7_StarFilter ==
  \A p \in AllCallers :
    GenDone(p) =>
      LET stars == Opt(p, "starRatings")
      IN IF IsDefined(stars) /\ Get(stars) # <<>>
           THEN \A k \in DOMAIN result[p].hotels :
                  /\ IsDefined(result[p].hotels[k].starRating)
                  /\ Get(result[p].hotels[k].starRating) \in Range(Get(stars))
           ELSE frame[p].afterStars = frame[p].afterPrice

C7_Witness ==
  \E p \in AllCallers :
    /\ GenDone(p)
    /\ IsDefined(Opt(p, "starRatings")) /\ Get(Opt(p, "starRatings")) # <<>>
    /\ result[p].hotels # <<>>
    /\ \E i \in DOMAIN frame[p].afterPrice : ~IsDefined(frame[p].afterPrice[i].starRating)
    /\ \E i \in DOMAIN frame[p].afterPrice :
         /\ IsDefined(frame[p].afterPrice[i].starRating)
         /\ Get(frame[p].afterPrice[i].starRating) \notin Range(Get(Opt(p, "starRatings")))

(* C8: the returned list has at most 5 hotels, is sorted by non-increasing *)
(* finalScore, and no scored hotel left out of it has a finalScore         *)
(* strictly greater than one in it.                                        *)
C8_TopFiveSorted ==
  \A p \in AllCallers :
    GenDone(p) =>
      LET top == result[p].hotels
          scored == frame[p].scoredHotels
      IN /\ Len(top) <= 5
         /\ \A i, j \in DOMAIN top : i < j => top[i].finalScore >= top[j].finalScore
         /\ \A k \in DOMAIN scored :
              scored[k].ref \notin Range(Refs(top)) =>
                \A i \in DOMAIN top : scored[k].finalScore <= top[i].finalScore
         /\ Range(top) \subseteq Range(scored)
         /\ Len(top) = Min(5, Len(scored))

C8_Witness ==
  \E p \in AllCallers :
    /\ GenDone(p)
    /\ Len(frame[p].scoredHotels) > 5
    /\ Len(result[p].hotels) = 5
    /\ frame[p].searchResults # <<>>
    /\ \E i, j \in DOMAIN result[p].hotels :
         result[p].hotels[i].finalScore > result[p].hotels[j].finalScore
    /\ \E i, j \in DOMAIN frame[p].scoredHotels :
         i < j /\ frame[p].scoredHotels[i].finalScore < frame[p].scoredHotels[j].finalScore

(* C9 as stated: among hotels with equal finalScore, the order in the      *)
(* returned list, and the choice of the tied hotels that make the cut,     *)
(* follows the order of the candidate set, on both paths.                  *)
C9_TiesInCandidateOrder ==
  \A p \in AllCallers :
    GenDone(p) =>
      LET top == result[p].hotels
          cands == frame[p].candidateHotels
          scored == frame[p].scoredHotels
      IN /\ \A i, j \in DOMAIN top :
              (i < j /\ top[i].finalScore = top[j].finalScore) =>
                PosOf(cands, top[i].ref) < PosOf(cands, top[j].ref)
         /\ \A k \in DOMAIN scored, i \in DOMAIN top :
              (scored[k].ref \notin Range(Refs(top))
               /\ scored[k].finalScore = top[i].finalScore) =>
                PosOf(cands, top[i].ref) < PosOf(cands, scored[k].ref)

(* C9 amended: among hotels with equal finalScore, the order in the        *)
(* returned list, and the choice of the tied hotels that make the cut,     *)
(* follows the order of the list that is sorted: the candidate order on    *)
(* the popularity-fallback path, the search-result order (closest match    *)
(* first, equal distances in candidate order) on the fuzzy-match path.     *)
C9_TiesInScoredOrder ==
  \A p \in AllCallers :
    GenDone(p) =>
      LET top == result[p].hotels
          cands == frame[p].candidateHotels
          scored == frame[p].scoredHotels
          hits == frame[p].searchResults
      IN /\ \A i, j \in DOMAIN top :
              (i < j /\ top[i].finalScore = top[j].finalScore) =>
                PosOf(scored, top[i].ref) < PosOf(scored, top[j].ref)
         /\ \A k \in DOMAIN scored, i \in DOMAIN top :
              (scored[k].ref \notin Range(Refs(top))
               /\ scored[k].finalScore = top[i].finalScore) =>
                PosOf(scored, top[i].ref) < PosOf(scored, scored[k].ref)
         /\ IF hits = <<>>
              THEN Refs(scored) = Refs(cands)
              ELSE /\ Refs(scored) = [k \in DOMAIN hits |-> hits[k].item.ref]
                   /\ \A i, j \in DOMAIN hits :
                        i < j =>
                          \/ hits[i].score < hits[j].score
                          \/ /\ hits[i].score = hits[j].score
                             /\ PosOf(cands, hits[i].item.ref) < PosOf(cands, hits[j].item.ref)

C9_Witness ==
  \E p \in AllCallers :
    /\ GenDone(p)
    /\ frame[p].searchResults # <<>>
    /\ \E i, j \in DOMAIN result[p].hotels :
         /\ i < j
         /\ result[p].hotels[i].finalScore = result[p].hotels[j].finalScore
         /\ PosOf(frame[p].candidateHotels, result[p].hotels[i].ref)
              > PosOf(frame[p].candidateHotels, result[p].hotels[j].ref)

(* C10: the popularity-only scoring is used exactly when the fuzzy search  *)
(* returns no hit on the candidates; with at least one hit only the hit    *)
(* hotels are scored and returned, however few they are.                   *)
C10_FallbackOnlyOnZeroHits ==
  \A p \in AllCallers :
    GenDone(p) =>
      LET top == result[p].hotels
          cands == frame[p].candidateHotels
          scored == frame[p].scoredHotels
          hits == frame[p].searchResults
      IN IF hits = <<>>
           THEN /\ Refs(scored) = Refs(cands)
                /\ \A k \in DOMAIN scored : scored[k].finalScore = PopularityScore(cands[k])
           ELSE /\ Refs(scored) = [k \in DOMAIN hits |-> hits[k].item.ref]
                /\ \A k \in DOMAIN scored :
                     scored[k].finalScore =
                       calculateFinalScore(hits[k].item, call[p].persona, 100 - hits[k].score)
                /\ Range(Refs(top)) \subseteq {hits[k].item.ref : k \in DOMAIN hits}
                /\ Len(top) = Min(5, Len(hits))

C10_Witness ==
  \E p \in AllCallers :
    /\ GenDone(p)
    /\ Len(frame[p].searchResults) \in 1..4
    /\ Len(frame[p].candidateHotels) > 5
    /\ Len(result[p].hotels) = Len(frame[p].searchResults)
    /\ \E k \in DOMAIN result[p].hotels :
         result[p].hotels[k].finalScore
           # PopularityScore(result[p].hotels[k])

(* C11: whenever the candidates left by the filters are not empty the      *)
(* returned list is not empty; when the fuzzy search matches nothing,      *)
(* exactly min(5, number of candidates) candidates are returned, each with *)
(* the popularity score as its finalScore.                                 *)
C11_NonEmptyWhenCandidates ==
  \A p \in AllCallers :
    (GenDone(p) /\ frame[p].afterRating # <<>>) =>
      LET top == result[p].hotels
          cands == frame[p].candidateHotels
      IN /\ top # <<>>
         /\ frame[p].searchResults = <<>> =>
              /\ Len(top) = Min(5, Len(cands))
              /\ \A k \in DOMAIN top :
                   /\ top[k].ref \in Range(Refs(cands))
                   /\ top[k].finalScore = PopularityScore(top[k])
              /\ \A i, j \in DOMAIN top : top[i].ref = top[j].ref => i = j

C11_Witness ==
  \E p \in AllCallers :
    /\ GenDone(p)
    /\ frame[p].searchResults = <<>>
    /\ Len(frame[p].candidateHotels) > 5
    /\ Len(result[p].hotels) = 5

C13_GeocodeFailureKeepsCandidates ==
  \A p \in AllCallers :
    /\ frame[p].geocode \in {"null", "ok"} => GenDone(p)
    /\ (GenDone(p) /\ frame[p].geocode = "null") =>
         /\ frame[p].areaResults = <<>>
         /\ frame[p].candidateHotels = frame[p].afterRating
         /\ result[p].kind = "recommendations"
         /\ result[p].insights.totalAnalyzed = Len(frame[p].afterRating)

C13_Witness ==
  \E p \in AllCallers :
    /\ GenDone(p)
    /\ frame[p].geocode = "null"
    /\ Len(frame[p].candidateHotels) > 1
    /\ result[p].hotels # <<>>

C15_AggregationNeverFails ==
  /\ \A p \in AllCallers : pc[p] # "rejected"
  /\ isInitialized => Len(aggregatedHotels) = Len(hotelData)

(* C16: after aggregation every hotel of the collection has an integer     *)
(* confidenceScore between 0 and 100 and a priceRange above 0, whatever    *)
(* numeric average_rating and price its record has.                        *)
C16_ConfidenceAndPriceRanges ==
  \A i \in DOMAIN aggregatedHotels :
    /\ aggregatedHotels[i].confidenceScore \in 0..100
    /\ aggregatedHotels[i].priceRange > 0

(* C17: every finalScore of a returned hotel with averageScore in [0, 10]  *)
(* lies in 0..100, on the fuzzy-match path and on the popularity path.     *)
C17_FinalScoreRange ==
  \A p \in AllCallers :
    GenDone(p) =>
      \A k \in DOMAIN result[p].hotels :
        result[p].hotels[k].averageScore \in 0..1000 =>
          result[p].hotels[k].finalScore \in 0..100

(* C18: searchHotelsByCity returns exactly the hotels of the collection    *)
(* whose city is the argument ignoring case, in collection order, as they  *)
(* are (no address match, no fallback, no ranking, no truncation), and the *)
(* whole collection for an empty argument or "all".                        *)
C18_SearchByCityExact ==
  \A p \in AllCallers :
    (pc[p] = "done" /\ call[p].op = "searchHotelsByCity") =>
      LET city == call[p].city
          found == result[p].hotels
      IN IF city = <<>> \/ city = sAll
           THEN found = aggregatedHotels
           ELSE /\ \A k \in DOMAIN found :
                     /\ PosOf(aggregatedHotels, found[k].ref) > 0
                     /\ found[k] = aggregatedHotels[PosOf(aggregatedHotels, found[k].ref)]
                     /\ toLowerCase(found[k].city) = toLowerCase(city)
                /\ \A i \in DOMAIN aggregatedHotels :
                     toLowerCase(aggregatedHotels[i].city) = toLowerCase(city) =>
                       aggregatedHotels[i].ref \in Range(Refs(found))
                /\ \A i, j \in DOMAIN found :
                     i < j => PosOf(aggregatedHotels, found[i].ref)
                                < PosOf(aggregatedHotels, found[j].ref)

C18_Witness ==
  \E p \in AllCallers :
    /\ pc[p] = "done" /\ call[p].op = "searchHotelsByCity"
    /\ call[p].city = sdelhi
    /\ Len(result[p].hotels) = 2
    /\ result[p].hotels[1].city # result[p].hotels[2].city
    /\ Len(aggregatedHotels) > 5
    /\ \E i \in DOMAIN aggregatedHotels :
         /\ aggregatedHotels[i].ref \notin Range(Refs(result[p].hotels))
         /\ IsDefined(aggregatedHotels[i].address)
         /\ includes(toLowerCase(Get(aggregatedHotels[i].address)), <<"d">>)

(* C19: getAvailableCities returns every city of the collection exactly    *)
(* once, in ascending lexicographic order, and no other city.              *)
C19_AvailableCitiesSortedDistinct ==
  \A p \in AllCallers :
    (pc[p] = "done" /\ call[p].op = "getAvailableCities") =>
      LET cities == result[p].cities
      IN /\ Range(cities) = {aggregatedHotels[i].city : i \in DOMAIN aggregatedHotels}
         /\ \A i, j \in DOMAIN cities : i < j => StringLess(cities[i], cities[j])

C19_Witness ==
  \E p \in AllCallers :
    /\ pc[p] = "done" /\ call[p].op = "getAvailableCities"
    /\ Len(result[p].cities) > 3
    /\ Len(aggregatedHotels) > Len(result[p].cities)
    /\ aggregatedHotels[1].city # result[p].cities[1]
    /\ \E i, j \in DOMAIN result[p].cities :
         i < j /\ result[p].cities[i] = sMumbai /\ result[p].cities[j] = sdelhi

(* C20: when the area match finds nothing and the geocode lookup gives a   *)
(* point, the candidates passed on to the ranking are a permutation of the *)
(* candidates before the area step, in non-decreasing haversine distance   *)
(* from that point.                                                        *)
C20_GeocodeSortsByDistance ==
  \A p \in AllCallers :
    (GenDone(p) /\ frame[p].geocode = "ok") =>
      LET before == frame[p].afterRating
          cands == frame[p].candidateHotels
          geo == Get(frame[p].geoPoint)
          Distance(h) == haversineKm(geo.lat, geo.lng, h.coordinates.lat, h.coordinates.lng)
      IN /\ frame[p].areaResults = <<>>
         /\ Len(cands) = Len(before)
         /\ \A i \in DOMAIN before : \E k \in DOMAIN cands : cands[k] = before[i]
         /\ \A i, j \in DOMAIN cands : cands[i].ref = cands[j].ref => i = j
         /\ \A i, j \in DOMAIN cands : i < j => Distance(cands[i]) <= Distance(cands[j])

C20_Witness ==
  \E p \in AllCallers :
    /\ GenDone(p)
    /\ frame[p].geocode = "ok"
    /\ Len(frame[p].candidateHotels) > 1
    /\ Refs(frame[p].candidateHotels) # Refs(frame[p].afterRating)

(* C21: within one request the geocode lookup is issued only after the     *)
(* area match returned no result, and the ranking starts only after the    *)
(* lookup resolved; while a lookup is pending, another caller's request    *)
(* can be issued and run to completion without waiting for it.             *)
C21_GeocodeOrdering ==
  /\ [](\A p \in Callers(scenario) :
         /\ pc[p] = "geocoding" =>
              /\ HasArea(call[p].options)
              /\ frame[p].areaResults = <<>>
              /\ frame[p].geocode = "pending"
              /\ frame[p].searchResults = <<>> /\ frame[p].scoredHotels = <<>>
         /\ (GenDone(p) /\ frame[p].geocode # "none") =>
              frame[p].geocode \in {"ok", "null"} /\ frame[p].areaResults = <<>>
         /\ (GenDone(p) /\ frame[p].areaResults # <<>>) => frame[p].geocode = "none")
  /\ [][\A p, q \in Callers(scenario) :
          (p # q /\ pc[p] = "geocoding" /\ calls' = calls + 1 /\ pc'[q] # pc[q])
            => pc'[p] = "geocoding" /\ pc'[q] \in {"done", "geocoding"}]_vars

(* One caller's lookup is pending while the other's request, issued after  *)
(* the engine was initialized, has returned its recommendations.           *)
C21_Witness ==
  \E p, q \in Callers(scenario) :
    /\ p # q
    /\ pc[p] = "geocoding"
    /\ GenDone(q) /\ result[q].kind = "recommendations" /\ result[q].hotels # <<>>
    /\ loads = 1

(* The parser chain as the claim words it: the primary document when it    *)
(* parses to a mapping, else the quote-repaired secondary document when it *)
(* parses, else the empty mapping.                                         *)
FirstSuccessWins(row) ==
  LET primary == JsonParse(row.reviews_summary)
      secondary == JsonParse(RepairQuotes(row.reviews_from_different_sites))
  IN IF primary[1] THEN primary[2]
     ELSE IF secondary[1] THEN secondary[2]
     ELSE <<>>

(* C22: the platform ratings of every aggregated hotel are the result of   *)
(* the ordered parser chain: the primary reviews_summary field; whenever   *)
(* that yields no mapping, the quote-repaired secondary field; the empty   *)
(* mapping only when both fail.                                            *)
C22_ParserChain ==
  (isInitialized /\ Len(aggregatedHotels) = Len(hotelData)) =>
    \A i \in DOMAIN aggregatedHotels :
      aggregatedHotels[i].platformRatings = FirstSuccessWins(hotelData[aggregatedHotels[i].ref])

Personas == {"Family", "Business", "Luxury", "Solo", "Couple"}

(* The keywords of persona that occur, ignoring case, in a tag or in a     *)
(* review of h.                                                            *)
KeywordsFound(h, persona) ==
  {kw \in Range(bonusKeywords(persona)) :
     \/ \E i \in DOMAIN h.tags : IndexOfCI(h.tags[i], kw) # 0
     \/ \E i \in DOMAIN h.reviews : IndexOfCI(h.reviews[i], kw) # 0}

TagsFirstSeen(hotels) ==
  LET allTags == Flatten([i \in DOMAIN hotels |-> hotels[i].tags])
  IN FilterAt(allTags, LAMBDA i : \A j \in 1..(i - 1) : allTags[j] # allTags[i])

TagCount(hotels, tag) ==
  SumSeq([i \in DOMAIN hotels |->
            Cardinality({j \in DOMAIN hotels[i].tags : hotels[i].tags[j] = tag})])

(* C24: the insights of a request describe its candidate set after all     *)
(* filters, before ranking and truncation: totalAnalyzed is the number of  *)
(* candidates, averageRating their mean averageScore rounded to one        *)
(* decimal, topFeatures the 5 most frequent tags of the candidates, ties   *)
(* in first-seen order.                                                    *)
C24_InsightsOverCandidates ==
  \A p \in Callers(scenario) :
    (GenDone(p) /\ frame[p].candidateHotels # <<>>) =>
      LET cands == frame[p].candidateHotels
          seen == TagsFirstSeen(cands)
          top == result[p].insights.topFeatures
      IN /\ result[p].insights.totalAnalyzed = Len(cands)
         /\ result[p].insights.averageRating =
              RoundDiv(SumSeq([i \in DOMAIN cands |-> cands[i].averageScore]), 10 * Len(cands))
         /\ Len(top) = Min(5, Len(seen))
         /\ \A k \in DOMAIN top : \E i \in DOMAIN seen : seen[i] = top[k]
         /\ \A k, l \in DOMAIN top :
              k < l => \/ TagCount(cands, top[k]) > TagCount(cands, top[l])
                       \/ /\ TagCount(cands, top[k]) = TagCount(cands, top[l])
                          /\ PosOf([i \in DOMAIN seen |-> [ref |-> seen[i]]], top[k])
                               < PosOf([i \in DOMAIN seen |-> [ref |-> seen[i]]], top[l])
         /\ \A i \in DOMAIN seen :
              (\A k \in DOMAIN top : top[k] # seen[i]) =>
                \A k \in DOMAIN top : TagCount(cands, top[k]) >= TagCount(cands, seen[i])

(* The hotels of the collection that belong to city. *)
HotelsOf(city) == SelectSeq(aggregatedHotels, LAMBDA h : BelongsTo(h, city))

(* C25: insights.cityStats describes the queried city: hotelCount is the   *)
(* number of hotels of that city and avgRating their mean averageScore     *)
(* rounded to one decimal, also when the city filter matched nothing and   *)
(* the candidates fell back to the whole collection.                       *)
C25_CityStatsOfQueriedCity ==
  \A p \in Callers(scenario) :
    (GenDone(p) /\ CityGiven(call[p].city)) =>
      LET own == HotelsOf(call[p].city)
          stats == result[p].insights.cityStats
      IN /\ stats.name = call[p].city
         /\ stats.hotelCount = Len(own)
         /\ own # <<>> =>
              stats.avgRating =
                RoundDiv(SumSeq([i \in DOMAIN own |-> own[i].averageScore]), 10 * Len(own))

(* C26: after a failed dataset load the engine is latched as initialized   *)
(* with an empty collection: no later call starts a load again and the     *)
(* collection stays empty from then on. (Every dataset of the shared       *)
(* scenario has rows, so there an initialized engine with an empty         *)
(* collection has had a failed load.)                                      *)
C26_LatchedAfterLoadFailure ==
  [][(isInitialized /\ aggregatedHotels = <<>>)
       => (isInitialized' /\ loads' = loads /\ aggregatedHotels' = <<>>)]_vars

(* The promises of key whose then handler has not run yet. *)
Unsettled(key) ==
  {id \in DOMAIN images.promises :
     images.promises[id].key = key /\ images.promises[id].state # "settled"}

(* C27: whatever the interleaving of getCachedHotelImage calls, a key has  *)
(* at most one fetch in flight; a call made while the fetch is pending     *)
(* starts no fetch and resolves to the value of the pending one; the key   *)
(* is in the in-flight map exactly until its fetch has settled, with a URL *)
(* or with null.                                                           *)
C27_SingleFlight ==
  /\ [](\A key \in ImageKeys :
         /\ Cardinality(Unsettled(key)) <= 1
         /\ Unsettled(key) = IF images.inFlight[key] = 0 THEN {} ELSE {images.inFlight[key]})
  /\ [](\A c \in AllCallers :
         LET cl == images.client[c]
         IN /\ cl.pc = "awaiting" => images.promises[cl.promise].key = cl.key
            /\ (cl.pc = "returned" /\ cl.promise # 0) =>
                 /\ images.promises[cl.promise].state = "settled"
                 /\ cl.value = images.promises[cl.promise].value)
  /\ [][\A key \in ImageKeys :
          images.inFlight[key] # 0 =>
            \A id \in DOMAIN images'.promises :
              images'.promises[id].key = key => id \in DOMAIN images.promises]_vars

(* Two callers were handed the same promise and got its URL; the fetch of  *)
(* the other key settled with null and the key left the in-flight map.     *)
C27_Witness ==
  /\ \E c, d \in AllCallers :
       /\ c # d
       /\ images.client[c].pc = "returned" /\ images.client[d].pc = "returned"
       /\ images.client[c].promise # 0
       /\ images.client[c].promise = images.client[d].promise
       /\ IsDefined(images.client[d].value)
  /\ \E id \in DOMAIN images.promises :
       /\ images.promises[id].state = "settled"
       /\ images.promises[id].value = None
       /\ images.inFlight[images.promises[id].key] = 0

(* C28: once the fetch of a key has resolved, its result, null included,   *)
(* stays in the cache for good and no later call for the key fetches       *)
(* again; getCachedUrl returns null for a key never fetched and for a key  *)
(* cached as null.                                                         *)
C28_CachedForGood ==
  /\ [](\A id \in DOMAIN images.promises :
         images.promises[id].state = "settled" =>
           images.cache[images.promises[id].key] = <<images.promises[id].value>>)
  /\ [](\A key \in ImageKeys :
         Cardinality({id \in DOMAIN images.promises : images.promises[id].key = key}) <= 1)
  /\ [][\A key \in ImageKeys :
          images.cache[key] # <<>> =>
            /\ images'.cache[key] = images.cache[key]
            /\ \A id \in DOMAIN images'.promises :
                 images'.promises[id].key = key => id \in DOMAIN images.promises]_vars
  /\ [][\A c \in AllCallers :
          (images'.calls = images.calls + 1 /\ images'.client[c] # images.client[c]
             /\ images'.client[c].op = "getCachedUrl")
          => LET entry == images.cache[images'.client[c].key]
             IN images'.client[c].value =
                  IF entry = <<>> \/ entry = <<None>> THEN None ELSE entry[1]]_vars

(* A key is cached as null and a later getCachedHotelImage of it was       *)
(* served from the cache; getCachedUrl returned null for a key that was    *)
(* never fetched.                                                          *)
C28_Witness ==
  \E c, d \in AllCallers, key, other \in ImageKeys :
    /\ c # d /\ key # other
    /\ images.cache[key] = <<None>>
    /\ images.cache[other] = <<>>
    /\ images.client[c] = [pc |-> "returned", op |-> "getCachedHotelImage", key |-> key,
                           promise |-> 0, value |-> None]
    /\ images.client[d] = [pc |-> "returned", op |-> "getCachedUrl", key |-> other,
                           promise |-> 0, value |-> None]

(* Search i has been superseded: a newer search was started after it, or   *)
(* the component was unmounted.                                            *)
Superseded(i) == i < Len(screen.searches) \/ ~screen.mounted

(* C29: a search of the area-search effect that was superseded while its   *)
(* geocode lookup was pending (the area query, the filtered hotels or the  *)
(* selected city changed, or the component unmounted) writes none of       *)
(* areaFiltered, geoCenter, distanceByKey, searchError and searching; the  *)
(* displayed area results are only ever set by the search started last.    *)
C29_SupersededSearchWritesNothing ==
  /\ [][\A i \in DOMAIN screen.searches :
          (/\ screen.searches[i].state = "geocoding"
           /\ screen'.searches[i].state = "returned"
           /\ Superseded(i))
          => screen'.display = screen.display]_vars
  /\ [][screen'.display.areaFiltered # screen.display.areaFiltered
          => \/ Len(screen'.searches) = Len(screen.searches) + 1
             \/ /\ screen.mounted
                /\ screen.searches[Len(screen.searches)].state = "geocoding"
                /\ screen'.searches[Len(screen.searches)].state = "returned"]_vars

(* The lookup of a superseded search has settled, and the screen shows the *)
(* nearest hotels found by the search started last.                        *)
C29_Witness ==
  /\ screen.mounted
  /\ \E i \in DOMAIN screen.searches :
       /\ i < Len(screen.searches)
       /\ screen.searches[i].query = <<"z","z">>
       /\ screen.searches[i].cancel
       /\ screen.searches[i].state = "returned"
  /\ screen.searches[Len(screen.searches)].query = <<"z","z">>
  /\ screen.searches[Len(screen.searches)].state = "returned"
  /\ ~screen.display.searching
  /\ IsDefined(screen.display.geoCenter)
  /\ IsDefined(screen.display.areaFiltered)
  /\ Len(Get(screen.display.areaFiltered)) = Len(screen.searches[Len(screen.searches)].hotels)

(* C30: every call of analyzePreferences eventually returns, setting       *)
(* isAnalyzing back to false, and has by then set a recommendations list   *)
(* on the path it took: the engine path when isEngineReady, the static     *)
(* path when not, the static path when generateRecommendations throws;     *)
(* the engine is never queried while isEngineReady is false.               *)
C30_AnalyzeAlwaysCompletes ==
  /\ \A i \in 1..HookCallLimit :
       [](i \in DOMAIN hook.calls
            => <>(i \in DOMAIN hook.calls /\ hook.calls[i].pc = "done"))
  /\ [][\A i \in DOMAIN hook.calls :
          (hook.calls[i].pc # "done" /\ hook'.calls[i].pc = "done") =>
            LET c == hook'.calls[i]
            IN /\ ~hook'.isAnalyzing
               /\ \/ /\ hook.calls[i].pc = "engine" /\ c.path = "engine"
                     /\ hook'.recommendations = EngineList(c.persona, c.city)
                  \/ /\ hook.calls[i].pc = "engine" /\ c.path = "static after error"
                     /\ hook'.recommendations = StaticList(c.persona, c.city)
                  \/ /\ hook.calls[i].pc = "timer" /\ c.path = "static"
                     /\ hook'.recommendations = StaticList(c.persona, c.city)]_vars
  /\ [][hook'.engineQueries # hook.engineQueries => hook.isEngineReady]_vars
  /\ [](\A i \in DOMAIN hook.calls : hook.calls[i].pc = "engine" => hook.isEngineReady)

(* Three calls have returned, one on each path, and isAnalyzing is false. *)
C30_Witness ==
  /\ ~hook.isAnalyzing
  /\ \A i \in DOMAIN hook.calls : hook.calls[i].pc = "done"
  /\ \A path \in {"engine", "static", "static after error"} :
       \E i \in DOMAIN hook.calls : hook.calls[i].path = path

====
